---------------------------- MODULE Spec2Model ----------------------------
(***************************************************************************)
(* Product detail page: the Product Action State (quantity + simulated     *)
(* add-to-cart status), the QuantitySpinner and the AddToCartButton; and   *)
(* on the server the Product Data Client (getProductBySku), ProductPage,   *)
(* generateMetadata and getProductsForSitemap.                             *)
(*                                                                         *)
(* A server function runs from one await to the next in one action; what   *)
(* the network and the backend answer is chosen freely when a fetch or a   *)
(* response.json() settles.                                                *)
(*                                                                         *)
(* Execution model: one JavaScript event loop.  Every action below is one  *)
(* macrotask (a UI event handler or a timer callback) together with the    *)
(* microtasks it triggers and the React re-render that follows it, so the  *)
(* state between two actions is what the user can observe.                 *)
(*                                                                         *)
(* Time is counted in milliseconds.  A pending timer holds the time left   *)
(* until it is due.  A timer fires at its due time: time never advances    *)
(* past a pending timer (Advance), and timers that are due at the same     *)
(* instant fire in the order they were scheduled.                          *)
(***************************************************************************)
EXTENDS Integers, Sequences, FiniteSets, TLC

VARIABLES
    quantity,     \* useState(1)                      ProductActionsContext:30
    cartStatus,   \* useState<CartStatus>('idle')     ProductActionsContext:31
    timers,       \* pending setTimeout callbacks, in scheduling order
    sub,          \* history: the latest handleAddToCart invocation
    calls,        \* history: the number of handleAddToCart invocations
    lastInput,    \* history: the latest quantity event
    typed,        \* history: the number the latest event typed, if 1 or more
    product,      \* the product prop of the provider
    env,          \* process.env of the server
    inv,          \* the server function being run, and how far it has come
    fetches,      \* the fetch calls that function has issued, in order
    browser,      \* the browser bundle: NODE_ENV and whether window.gtag exists
    metrics,      \* PerformanceMonitor.metrics: Map<string, Metric>
    posts,        \* the transmissions of sendToAnalytics, in order
    perf,         \* the PerformanceProvider instance and what its effect did
    health,       \* the SEO health checks being run
    cache,        \* the sitemap-products entry of unstable_cache
    image,        \* the ProductImage instance: src, isLoading, hasError
    call          \* history: the latest call of a synchronous function

vars == <<quantity, cartStatus, timers, sub, calls, lastInput, typed, product,
          env, inv, fetches, browser, metrics, posts, perf, health, cache,
          image, call>>

clientVars == <<quantity, cartStatus, timers, sub, calls, lastInput, typed, product>>

serverVars == <<env, inv, fetches>>

monitorVars == <<browser, metrics, posts>>

\* what the product page's own state and the product data client leave alone
restVars == <<monitorVars, perf, health, cache, image, call>>

---------------------------------------------------------------------------
(* Program constants *)

\* await new Promise(resolve => setTimeout(resolve, 1000))
RESOLVE_DELAY == 1000
\* setTimeout(() => setCartStatus('idle'), 2000)
SUCCESS_REVERT_DELAY == 2000
\* setTimeout(() => setCartStatus('idle'), 3000)
ERROR_REVERT_DELAY == 3000
\* Math.random() > 0.2, with Math.random() counted in tenths
RANDOM_THRESHOLD == 2

(* Bounds of the model *)

\* most invocations of handleAddToCart in one page view
MaxCalls == 5
\* longest text typed into the quantity input
MaxTextLen == 3

\* the granularity at which user events are spread over time
Quantum == RESOLVE_DELAY \div 2
\* the longest timeline of a submission; its age is not counted further
TimelineLength == RESOLVE_DELAY + ERROR_REVERT_DELAY

CartStatus == {"idle", "loading", "success", "error"}

\* Math.random() in tenths: 0.0, 0.1, ..., 0.9
RandomTenths == 0..9

\* characters a text of the quantity input is made of
Chars == {"0", "1", "2", "-", "a"}
Texts == UNION {[1..n -> Chars] : n \in 0..MaxTextLen}

---------------------------------------------------------------------------
(* Pure helpers *)

Min(a, b) == IF a < b THEN a ELSE b
Max(a, b) == IF a > b THEN a ELSE b

\* parseInt's result: NaN or a number
NaN == [nan |-> TRUE, val |-> 0]
Num(n) == [nan |-> FALSE, val |-> n]

IsDigit(c) == c \in {"0", "1", "2", "3", "4", "5", "6", "7", "8", "9"}

DigitValue(c) ==
    CASE c = "0" -> 0 [] c = "1" -> 1 [] c = "2" -> 2 [] c = "3" -> 3
      [] c = "4" -> 4 [] c = "5" -> 5 [] c = "6" -> 6 [] c = "7" -> 7
      [] c = "8" -> 8 [] c = "9" -> 9

IsWhiteSpace(c) == c \in {" "}

RECURSIVE TrimStart(_)
TrimStart(s) ==
    IF s # <<>> /\ IsWhiteSpace(Head(s)) THEN TrimStart(Tail(s)) ELSE s

\* the longest prefix of s made of digits
RECURSIVE DigitPrefix(_)
DigitPrefix(s) ==
    IF s # <<>> /\ IsDigit(Head(s))
    THEN <<Head(s)>> \o DigitPrefix(Tail(s))
    ELSE <<>>

\* the value of a digit string, most significant digit first
RECURSIVE DecimalValue(_)
DecimalValue(ds) ==
    IF ds = <<>> THEN 0
    ELSE 10 * DecimalValue(SubSeq(ds, 1, Len(ds) - 1)) + DigitValue(ds[Len(ds)])

\* parseInt(text) with no radix: leading white space is skipped, one sign is
\* read, then the longest run of decimal digits; what follows is ignored.
\* No digit at that place gives NaN.  (The "0x" prefix, which selects radix
\* 16, needs an "x", which Chars does not hold.)
parseInt(text) ==
    LET t == TrimStart(text)
        signed == t # <<>> /\ Head(t) \in {"-", "+"}
        negative == t # <<>> /\ Head(t) = "-"
        body == IF signed THEN Tail(t) ELSE t
        ds == DigitPrefix(body)
    IN  IF ds = <<>> THEN NaN
        ELSE Num(IF negative THEN 0 - DecimalValue(ds) ELSE DecimalValue(ds))

\* parseInt over the texts of the model, computed once
ParsedText == [text \in Texts |-> parseInt(text)]

\* what a text parsed to: no number, a number below 1, or a number from 1 up
InputClass(value) ==
    CASE value.nan -> "NaN"
      [] ~value.nan /\ value.val < 1 -> "below 1"
      [] OTHER -> "1 or more"

\* the number a text parsed to when it is 1 or more, and 0 when it is not
Typed(value) == IF ~value.nan /\ value.val >= 1 THEN value.val ELSE 0

---------------------------------------------------------------------------
(* Timers *)

Timer(kind, left) == [kind |-> kind, left |-> left]

RemoveAt(s, i) == SubSeq(s, 1, i - 1) \o SubSeq(s, i + 1, Len(s))

\* the timer the event loop runs next: the first scheduled among those due
IsNextDue(i) ==
    /\ i \in 1..Len(timers)
    /\ timers[i].left = 0
    /\ \A j \in 1..(i - 1) : timers[j].left # 0

PendingResolves == {i \in 1..Len(timers) : timers[i].kind = "resolve"}
PendingReverts == {i \in 1..Len(timers) : timers[i].kind = "revert"}

---------------------------------------------------------------------------
(* ProductActionsProvider *)

\* JavaScript's undefined and null, where a string is expected
Undefined == "<undefined>"
Null == "<null>"

\* a Product (types/product.ts); the price is counted in centavos
mockProduct ==
    [id |-> 1, name |-> "Sofá 3 Lugares Comfort", brand |-> "MóveisTop",
     sku |-> "sf-comfort-3l-bg", price |-> 129999,
     description |-> "Sofá confortável de 3 lugares em tecido bege.",
     imageUrl |-> "https://example.com/sofa.jpg"]

\* the products a provider is mounted with: one with and one without a
\* description
Products ==
    {mockProduct,
     [id |-> 2, name |-> "Mesa Lateral", brand |-> "MóveisTop",
      sku |-> "ms-lateral", price |-> 45000, description |-> Null,
      imageUrl |-> "https://example.com/mesa.jpg"]}

\* a provider freshly mounted with the product p
Mounted(p) ==
    /\ quantity = 1
    /\ cartStatus = "idle"
    /\ timers = <<>>
    /\ sub = [age |-> 0, from |-> "none", quiet |-> TRUE, outcome |-> "none"]
    /\ calls = 0
    /\ lastInput = "none"
    /\ typed = 0
    /\ product = p

\* a ceiling that is off by one
incrementQuantity_CeilingOffByOne(prev) == Min(11, prev + 1)

\* incrementQuantity: setQuantity(prev => Math.min(10, prev + 1))
incrementQuantity(prev) == Min(10, prev + 1)

\* a decrement with no floor
decrementQuantity_NoFloor(prev) == prev - 1

\* decrementQuantity: setQuantity(prev => Math.max(1, prev - 1))
decrementQuantity(prev) == Max(1, prev - 1)

\* a handleAddToCart that shows 'loading' only once the delay has passed:
\* the status is left as it is when the call returns
handleAddToCart_LoadingLate ==
    /\ cartStatus' = cartStatus
    /\ timers' = Append(timers, Timer("resolve", RESOLVE_DELAY))
    /\ sub' = [age |-> 0, from |-> cartStatus, quiet |-> timers = <<>>,
               outcome |-> "none"]
    /\ calls' = calls + 1
    /\ UNCHANGED <<quantity, lastInput, typed, product, env, inv, fetches, restVars>>

\* a handleAddToCart that restarts the delay: it clears the resolutions
\* still pending before it schedules its own
handleAddToCart_Restart ==
    /\ cartStatus' = "loading"
    /\ timers' = Append(SelectSeq(timers, LAMBDA t : t.kind # "resolve"),
                        Timer("resolve", RESOLVE_DELAY))
    /\ sub' = [age |-> 0, from |-> cartStatus, quiet |-> timers = <<>>,
               outcome |-> "none"]
    /\ calls' = calls + 1
    /\ UNCHANGED <<quantity, lastInput, typed, product, env, inv, fetches, restVars>>

\* a handleAddToCart that writes the price of the whole order into the product
handleAddToCart_PricesProduct ==
    /\ cartStatus' = "loading"
    /\ timers' = Append(timers, Timer("resolve", RESOLVE_DELAY))
    /\ sub' = [age |-> 0, from |-> cartStatus, quiet |-> timers = <<>>,
               outcome |-> "none"]
    /\ calls' = calls + 1
    /\ product' = [product EXCEPT !.price = @ * quantity]
    /\ UNCHANGED <<quantity, lastInput, typed, env, inv, fetches, restVars>>

\* handleAddToCart up to its await: setCartStatus('loading') and the
\* setTimeout(resolve, 1000) of the awaited promise
handleAddToCart ==
    /\ cartStatus' = "loading"
    /\ timers' = Append(timers, Timer("resolve", RESOLVE_DELAY))
    /\ sub' = [age |-> 0, from |-> cartStatus, quiet |-> timers = <<>>,
               outcome |-> "none"]
    /\ calls' = calls + 1
    /\ UNCHANGED <<quantity, lastInput, typed, product, env, inv, fetches, restVars>>

\* the outcome handleAddToCart draws after the await
Outcome(random) == IF random > RANDOM_THRESHOLD THEN "success" ELSE "error"

RevertDelay(outcome) ==
    IF outcome = "success" THEN SUCCESS_REVERT_DELAY ELSE ERROR_REVERT_DELAY

\* a handleAddToCart whose error status is not reverted
ResolveSubmission_ErrorStays(i, random) ==
    /\ IsNextDue(i)
    /\ timers[i].kind = "resolve"
    /\ cartStatus' = Outcome(random)
    /\ timers' = IF Outcome(random) = "success"
                 THEN Append(RemoveAt(timers, i),
                             Timer("revert", SUCCESS_REVERT_DELAY))
                 ELSE RemoveAt(timers, i)
    /\ sub' = [sub EXCEPT !.outcome = Outcome(random)]
    /\ UNCHANGED <<quantity, calls, lastInput, typed, product, env, inv, fetches, restVars>>

\* The 1000 ms timer fires and resolves the promise; the rest of
\* handleAddToCart runs as a microtask of the same macrotask: it sets the
\* outcome and schedules the auto-revert.  (The catch branch is dead: the
\* awaited promise never rejects and the setters do not throw.)
ResolveSubmission(i, random) ==
    /\ IsNextDue(i)
    /\ timers[i].kind = "resolve"
    /\ cartStatus' = Outcome(random)
    /\ timers' = Append(RemoveAt(timers, i),
                        Timer("revert", RevertDelay(Outcome(random))))
    /\ sub' = [sub EXCEPT !.outcome = Outcome(random)]
    /\ UNCHANGED <<quantity, calls, lastInput, typed, product, env, inv, fetches, restVars>>

\* setTimeout(() => setCartStatus('idle'), ...) fires
AutoRevert(i) ==
    /\ IsNextDue(i)
    /\ timers[i].kind = "revert"
    /\ cartStatus' = "idle"
    /\ timers' = RemoveAt(timers, i)
    /\ UNCHANGED <<quantity, sub, calls, lastInput, typed, product, env, inv, fetches, restVars>>

---------------------------------------------------------------------------
(* AddToCartButton *)

\* a button that stays enabled once the submission has succeeded
AddToCartDisabled_LoadingOnly == cartStatus = "loading"

\* disabled={cartStatus === 'loading' || cartStatus === 'success'}
AddToCartDisabled == cartStatus = "loading" \/ cartStatus = "success"

\* getButtonContent: the text of the button
getButtonContent ==
    CASE cartStatus = "loading" -> "Adicionando..."
      [] cartStatus = "success" -> "Adicionado ao carrinho!"
      [] cartStatus = "error" -> "Erro. Tente novamente"
      [] OTHER -> "Adicionar ao Carrinho"

\* onClick={handleAddToCart}; a disabled button dispatches no click
ClickAddToCart ==
    /\ ~AddToCartDisabled
    /\ calls < MaxCalls
    /\ handleAddToCart

---------------------------------------------------------------------------
(* QuantitySpinner *)

\* disabled={quantity <= 1}
DecrementDisabled == quantity <= 1

\* a lower limit that is off by one
Accepts_FromZero(value) == ~value.nan /\ value.val >= 0

\* if (!isNaN(value) && value >= 1)
Accepts(value) == ~value.nan /\ value.val >= 1

\* an increment that also dismisses the status of the cart
ClickIncrement_DismissesStatus ==
    /\ quantity' = incrementQuantity(quantity)
    /\ lastInput' = "increment"
    /\ typed' = 0
    /\ cartStatus' = "idle"
    /\ UNCHANGED <<timers, sub, calls, product, env, inv, fetches, restVars>>

ClickIncrement ==
    /\ quantity' = incrementQuantity(quantity)
    /\ lastInput' = "increment"
    /\ typed' = 0
    /\ UNCHANGED <<cartStatus, timers, sub, calls, product, env, inv, fetches, restVars>>

ClickDecrement ==
    /\ ~DecrementDisabled
    /\ quantity' = decrementQuantity(quantity)
    /\ lastInput' = "decrement"
    /\ typed' = 0
    /\ UNCHANGED <<cartStatus, timers, sub, calls, product, env, inv, fetches, restVars>>

\* a handler that clamps what was typed to the ceiling of the steppers
InputChange_Clamped(text) ==
    LET value == ParsedText[text]
    IN  /\ quantity' = IF Accepts(value) THEN Min(10, value.val) ELSE quantity
        /\ lastInput' = InputClass(value)
        /\ typed' = Typed(value)
        /\ UNCHANGED <<cartStatus, timers, sub, calls, product, env, inv, fetches, restVars>>

\* handleInputChange: onChange of the quantity input with e.target.value = text
InputChange(text) ==
    LET value == ParsedText[text]
    IN  /\ quantity' = IF Accepts(value) THEN value.val ELSE quantity
        /\ lastInput' = InputClass(value)
        /\ typed' = Typed(value)
        /\ UNCHANGED <<cartStatus, timers, sub, calls, product, env, inv, fetches, restVars>>

---------------------------------------------------------------------------
(* Other consumers of the context (useProductActions) *)

\* handleAddToCart called directly: the provider has no reentrancy guard
CallHandleAddToCart ==
    /\ calls < MaxCalls
    /\ handleAddToCart

\* decrementQuantity called directly, whatever the quantity
CallDecrementQuantity ==
    /\ quantity' = decrementQuantity(quantity)
    /\ lastInput' = "decrement"
    /\ typed' = 0
    /\ UNCHANGED <<cartStatus, timers, sub, calls, product, env, inv, fetches, restVars>>

---------------------------------------------------------------------------
(* The clock *)

\* the time until the next pending timer is due
NextDue ==
    IF timers = <<>> THEN Quantum
    ELSE CHOOSE d \in {timers[i].left : i \in 1..Len(timers)} :
            \A j \in 1..Len(timers) : d <= timers[j].left

\* time passes: by one quantum, or up to the next pending timer if that
\* comes first; never while a timer is due
Advance ==
    LET d == Min(Quantum, NextDue)
    IN  /\ d > 0
        /\ timers' = [i \in 1..Len(timers) |->
                         [timers[i] EXCEPT !.left = timers[i].left - d]]
        /\ sub' = [sub EXCEPT !.age = Min(sub.age + d, TimelineLength)]
        /\ UNCHANGED <<quantity, cartStatus, calls, lastInput, typed, product, env, inv, fetches, restVars>>

---------------------------------------------------------------------------
(* The server side: values, errors, responses *)

\* an environment variable that is not set
Unset == ""

DefaultEnv ==
    [NEXT_PUBLIC_API_URL |-> Unset, NEXT_PUBLIC_SITE_URL |-> Unset,
     API_BASE_URL |-> Unset]

Envs ==
    [NEXT_PUBLIC_API_URL : {Unset, "https://api.loja.example"},
     NEXT_PUBLIC_SITE_URL : {Unset, "https://loja.example"},
     API_BASE_URL : {Unset, "https://api.loja.example"}]

\* a || b on strings
OrElse(a, b) == IF a \in {Undefined, Null, ""} THEN b ELSE a

\* a promise: not settled yet, fulfilled with a value, rejected with an error
\* (here and below the fields of a record are written in the order of their
\* first use in this module)
Pending == [kind |-> "pending"]
Resolved(value) == [value |-> value, kind |-> "resolved"]
Rejected(error) == [kind |-> "rejected", error |-> error]

\* new ApiError(message, status, error)
ApiError(message, status, error) ==
    [name |-> "ApiError", error |-> error, message |-> message,
     status |-> status]

\* any other exception: it carries no status (0 stands for none)
Exception(name) ==
    [name |-> name, error |-> Undefined, message |-> name, status |-> 0]

\* what fetch rejects with: no connection, a timeout, an abort
FetchFailures ==
    {Exception("TypeError"), Exception("TimeoutError"), Exception("AbortError")}

\* a response body: text that is no JSON, or the JSON value it holds
Undecodable == [type |-> "invalid"]
JsonNull == [type |-> "null"]
JsonObject(fields) == [type |-> "object", fields |-> fields]
JsonArray(items) == [type |-> "array", items |-> items]

\* does the value have the field
Has(value, field) == value.type = "object" /\ field \in DOMAIN value.fields

\* value.field
Field(value, field) ==
    IF value.type = "object" /\ field \in DOMAIN value.fields
    THEN value.fields[field]
    ELSE Undefined

Response(status, body) == [body |-> body, status |-> status]

\* response.ok
ok(response) == response.status \in 200..299

\* response.json()
json(response) ==
    IF response.body.type = "invalid"
    THEN Rejected(Exception("SyntaxError"))
    ELSE Resolved(response.body)

Statuses == {200, 201, 301, 400, 404, 500, 503}

\* the bodies the product endpoint is modelled to answer with
ProductBodies ==
    {Undecodable, JsonNull,
     JsonObject([error |-> "Not Found", message |-> "Produto não encontrado",
                 status |-> 404]),
     JsonObject([message |-> "SKU sem cadastro"]),
     JsonObject([message |-> ""]),
     JsonObject([error |-> "Not Found"])}
        \cup {JsonObject(p) : p \in Products}

ProductResponses == {Response(s, b) : s \in Statuses, b \in ProductBodies}

SKUs == {"sf-comfort-3l-bg", "nao-existe"}

\* a fetch call: fetch(url, {method, next: {revalidate}})
Fetch(method, url, revalidate) ==
    [method |-> method, url |-> url, revalidate |-> revalidate]

\* the server function being run: which one (op), for which sku, where it
\* waits (pc), what its fetch settled with (fetched), what getProductBySku
\* settled with (client) and what the function itself settled with (result)
Invocation(op, sku, pc, fetched, client, result) ==
    [sku |-> sku, op |-> op, pc |-> pc, fetched |-> fetched,
     client |-> client, result |-> result]

NoInvocation == Invocation("none", "", "idle", Pending, Pending, Pending)

\* a server process with the environment e, running nothing
Idle(e) ==
    /\ env = e
    /\ inv = NoInvocation
    /\ fetches = <<>>

---------------------------------------------------------------------------
(* Product Data Client: getProductBySku *)

\* const API_BASE_URL = process.env.NEXT_PUBLIC_API_URL || 'http://localhost:3000'
API_BASE_URL == OrElse(env.NEXT_PUBLIC_API_URL, "http://localhost:3000")

REVALIDATE_SECONDS == 60

ConnectionError == ApiError("Erro de conexão com o servidor", 500, Undefined)

\* a catch block that lets every exception through as it is
Normalize_Passthrough(outcome) == outcome

\* catch (error): an ApiError is thrown again, anything else becomes the
\* connection error
Normalize(outcome) ==
    IF outcome.kind = "rejected" /\ outcome.error.name # "ApiError"
    THEN Rejected(ConnectionError)
    ELSE outcome

\* the try block from the point where fetch settles up to the next await:
\* Pending when it goes on to await response.json()
AfterFetch(settled) ==
    IF settled.kind = "rejected" THEN settled
    ELSE IF ~ok(settled.value) /\ settled.value.status # 404
         THEN Rejected(ApiError("Erro na API: " \o ToString(settled.value.status),
                                settled.value.status, Undefined))
         ELSE Pending

\* a client that answers every 404 with the not-found error, whatever the body
AfterJson_NotFoundWhateverBody(response) ==
    LET decoded == json(response)
    IN  IF ~ok(response)
        THEN Rejected(ApiError(
                 IF decoded.kind = "resolved"
                 THEN OrElse(Field(decoded.value, "message"), "Produto não encontrado")
                 ELSE "Produto não encontrado",
                 404, "Not Found"))
        ELSE decoded

\* the try block from the point where response.json() settles: of a 404
\* response (errorData) or of a 2xx response (product)
AfterJson(response) ==
    LET decoded == json(response)
    IN  IF decoded.kind = "rejected" THEN decoded
        ELSE IF ~ok(response)
             THEN IF decoded.value.type = "null"
                  THEN Rejected(Exception("TypeError"))
                  ELSE Rejected(ApiError(
                           OrElse(Field(decoded.value, "message"),
                                  "Produto não encontrado"),
                           404, "Not Found"))
             ELSE decoded

---------------------------------------------------------------------------
(* app/product/[sku]/page.tsx: ProductPage and generateMetadata *)

\* what notFound() ends the rendering with
NotFoundOutcome == [kind |-> "notFound"]

\* ProductPage once getProductBySku has settled with outcome.  The JSX of
\* the try block reads product.imageUrl and product.name: that throws a
\* TypeError when the body decoded to null.
ProductPage(outcome) ==
    LET tried ==
            IF outcome.kind = "resolved" /\ outcome.value.type = "null"
            THEN Rejected(Exception("TypeError"))
            ELSE outcome
    IN  IF tried.kind = "resolved"
        THEN Resolved([product |-> tried.value, page |-> "product"])
        ELSE IF tried.error.name = "ApiError" /\ tried.error.status \in {404, 400}
             THEN NotFoundOutcome
             ELSE tried

\* const baseUrl = process.env.NEXT_PUBLIC_SITE_URL || 'http://localhost:3001'
baseUrl == OrElse(env.NEXT_PUBLIC_SITE_URL, "http://localhost:3001")

\* `${value}` of a string field
Interpolate(value) ==
    CASE value = Undefined -> "undefined"
      [] value = Null -> "null"
      [] OTHER -> value

TwoDigits(n) == IF n < 10 THEN "0" \o ToString(n) ELSE ToString(n)

\* price.toFixed(2).replace('.', ','), the price counted in centavos
FormatPrice(price) == ToString(price \div 100) \o "," \o TwoDigits(price % 100)

\* the metadata of the catch block
FallbackMetadata(sku) ==
    [description |-> "O produto que você está procurando não foi encontrado. Navegue por nosso catálogo para descobrir outros produtos incríveis.",
     title |-> "Produto não encontrado | E-commerce Móveis",
     canonical |-> baseUrl \o "/product/" \o sku]

\* the metadata of a product; the descriptions of the model are shorter
\* than 150 characters, so substring(0, 150) keeps them whole
ProductMetadata(sku, p) ==
    LET metaDescription ==
            IF Field(p, "description") \notin {Undefined, Null, ""}
            THEN Field(p, "description")
            ELSE "Compre " \o Interpolate(Field(p, "name")) \o " da marca "
                 \o Interpolate(Field(p, "brand")) \o " por R$ "
                 \o FormatPrice(Field(p, "price"))
                 \o ". Produto de qualidade com entrega rápida e garantia."
    IN  [description |-> metaDescription,
         title |-> Interpolate(Field(p, "name")) \o " - "
                   \o Interpolate(Field(p, "brand")) \o " | E-commerce Móveis",
         canonical |-> baseUrl \o "/product/" \o sku,
         image |-> Field(p, "imageUrl")]

\* does the try block of generateMetadata throw on this product: reading a
\* field of null, or price.toFixed of a product with neither description
\* nor price
MetadataThrows(p) ==
    \/ p.type = "null"
    \/ /\ Field(p, "description") \in {Undefined, Null, ""}
       /\ ~Has(p, "price")

\* a generateMetadata that lets server errors through
generateMetadata_RethrowServerErrors(sku, outcome) ==
    IF outcome.kind = "resolved" /\ ~MetadataThrows(outcome.value)
    THEN Resolved(ProductMetadata(sku, outcome.value))
    ELSE IF outcome.kind = "rejected" /\ outcome.error.status >= 500
         THEN outcome
         ELSE Resolved(FallbackMetadata(sku))

\* generateMetadata once getProductBySku has settled with outcome
generateMetadata(sku, outcome) ==
    IF outcome.kind = "resolved" /\ ~MetadataThrows(outcome.value)
    THEN Resolved(ProductMetadata(sku, outcome.value))
    ELSE Resolved(FallbackMetadata(sku))

---------------------------------------------------------------------------
(* The three entry points that run getProductBySku *)

ProductOps == {"getProductBySku", "ProductPage", "generateMetadata"}

\* what the entry point op settles with once getProductBySku has settled
Complete(op, sku, outcome) ==
    CASE op = "ProductPage" -> ProductPage(outcome)
      [] op = "generateMetadata" -> generateMetadata(sku, outcome)
      [] OTHER -> outcome

\* the entry point op is called for sku and runs up to the await of the
\* fetch in getProductBySku
Start(op, sku) ==
    /\ inv.pc \in {"idle", "done"}
    /\ inv' = Invocation(op, sku, "fetch", Pending, Pending, Pending)
    /\ fetches' = <<Fetch("GET", API_BASE_URL \o "/products/" \o sku,
                          REVALIDATE_SECONDS)>>
    /\ UNCHANGED env
    /\ UNCHANGED <<clientVars, restVars>>

CallGetProductBySku(sku) == Start("getProductBySku", sku)

RequestProductPage(sku) == Start("ProductPage", sku)

RequestMetadata(sku) == Start("generateMetadata", sku)

\* getProductBySku has settled with outcome: the entry point settles too
Settle(outcome) ==
    [inv EXCEPT !.pc = "done", !.client = outcome,
                !.result = Complete(inv.op, inv.sku, outcome)]

\* a client that fetches once more when the fetch was rejected
ProductFetchSettles_Retry(settled) ==
    /\ inv.op \in ProductOps
    /\ inv.pc = "fetch"
    /\ IF settled.kind = "rejected" /\ Len(fetches) < 2
       THEN /\ fetches' = Append(fetches, fetches[1])
            /\ inv' = inv
       ELSE /\ fetches' = fetches
            /\ LET outcome == Normalize(AfterFetch(settled))
               IN  inv' = IF outcome = Pending
                          THEN [inv EXCEPT !.pc = "json", !.fetched = settled]
                          ELSE [Settle(outcome) EXCEPT !.fetched = settled]
    /\ UNCHANGED env
    /\ UNCHANGED <<clientVars, restVars>>

\* the fetch of getProductBySku settles
ProductFetchSettles(settled) ==
    /\ inv.op \in ProductOps
    /\ inv.pc = "fetch"
    /\ LET outcome == Normalize(AfterFetch(settled))
       IN  inv' = IF outcome = Pending
                  THEN [inv EXCEPT !.pc = "json", !.fetched = settled]
                  ELSE [Settle(outcome) EXCEPT !.fetched = settled]
    /\ UNCHANGED <<env, fetches>>
    /\ UNCHANGED <<clientVars, restVars>>

\* response.json() of getProductBySku settles
ProductJsonSettles ==
    /\ inv.op \in ProductOps
    /\ inv.pc = "json"
    /\ inv' = Settle(Normalize(AfterJson(inv.fetched.value)))
    /\ UNCHANGED <<env, fetches>>
    /\ UNCHANGED <<clientVars, restVars>>

---------------------------------------------------------------------------
(* lib/sitemap-data.ts: getProductsForSitemap *)

SITEMAP_REVALIDATE_SECONDS == 3600

\* a product of the sitemap listing
SitemapProduct(sku, name, lastModified, isActive) ==
    [name |-> name, sku |-> sku, lastModified |-> lastModified,
     isActive |-> isActive]

mockProducts ==
    <<SitemapProduct("product-1", "Premium Wireless Headphones", "2024-01-15", TRUE),
      SitemapProduct("product-2", "Smart Fitness Tracker", "2024-01-20", TRUE),
      SitemapProduct("product-3", "Bluetooth Speaker", "2024-01-25", TRUE),
      SitemapProduct("product-4", "Wireless Charging Pad", "2024-01-30", TRUE),
      SitemapProduct("product-5", "USB-C Hub", "2024-02-01", TRUE)>>

\* mockProducts.filter(product => product.isActive).map(...): the map
\* copies every product field by field
ActiveMockProducts == SelectSeq(mockProducts, LAMBDA p : p.isActive)

\* the listings the backend is modelled to answer with
ActiveProduct == SitemapProduct("active-product", "Active Product", "2024-01-01", TRUE)
InactiveProduct ==
    SitemapProduct("inactive-product", "Inactive Product", "2024-01-01", FALSE)

SitemapBodies ==
    {Undecodable, JsonNull,
     JsonObject([error |-> "Not Found"]),
     JsonObject([products |-> <<ActiveProduct>>]),
     JsonObject([products |-> <<ActiveProduct, InactiveProduct>>]),
     JsonArray(<<ActiveProduct, InactiveProduct>>)}

SitemapResponses == {Response(s, b) : s \in Statuses, b \in SitemapBodies}

\* the try block from the point where fetch settles up to the next await;
\* the catch block returns []
SitemapAfterFetch(settled) ==
    IF settled.kind = "rejected" THEN Resolved(<<>>)
    ELSE IF ~ok(settled.value) THEN Resolved(<<>>)
         ELSE Pending

\* the try block from the point where response.json() settles:
\* return data.products || []; reading products of null throws, and the
\* catch block returns []
SitemapAfterJson(response) ==
    LET decoded == json(response)
    IN  IF decoded.kind = "rejected" \/ decoded.value.type = "null"
        THEN Resolved(<<>>)
        ELSE IF Has(decoded.value, "products")
             THEN Resolved(Field(decoded.value, "products"))
             ELSE Resolved(<<>>)

\* getProductsForSitemap is called: with API_BASE_URL set it fetches the
\* listing, without it it returns the active mock products
CallGetProductsForSitemap ==
    /\ inv.pc \in {"idle", "done"}
    /\ IF env.API_BASE_URL # Unset
       THEN /\ inv' = Invocation("getProductsForSitemap", "", "fetch",
                                 Pending, Pending, Pending)
            /\ fetches' = <<Fetch("GET", env.API_BASE_URL \o "/products/sitemap",
                                  SITEMAP_REVALIDATE_SECONDS)>>
       ELSE /\ inv' = Invocation("getProductsForSitemap", "", "done",
                                 Pending, Pending, Resolved(ActiveMockProducts))
            /\ fetches' = <<>>
    /\ UNCHANGED env
    /\ UNCHANGED <<clientVars, restVars>>

\* the fetch of getProductsForSitemap settles
SitemapFetchSettles(settled) ==
    /\ inv.op = "getProductsForSitemap"
    /\ inv.pc = "fetch"
    /\ LET outcome == SitemapAfterFetch(settled)
       IN  inv' = IF outcome = Pending
                  THEN [inv EXCEPT !.pc = "json", !.fetched = settled]
                  ELSE [inv EXCEPT !.pc = "done", !.fetched = settled,
                                   !.result = outcome]
    /\ UNCHANGED <<env, fetches>>
    /\ UNCHANGED <<clientVars, restVars>>

\* response.json() of getProductsForSitemap settles
SitemapJsonSettles ==
    /\ inv.op = "getProductsForSitemap"
    /\ inv.pc = "json"
    /\ inv' = [inv EXCEPT !.pc = "done",
                          !.result = SitemapAfterJson(inv.fetched.value)]
    /\ UNCHANGED <<env, fetches>>
    /\ UNCHANGED <<clientVars, restVars>>

---------------------------------------------------------------------------
(* lib/performance.ts: PerformanceMonitor *)

\* most transmissions of sendToAnalytics in one page view
MaxPosts == 2

\* a JavaScript number is counted in thousandths: 0.1 is 100, 2500 is 2500000
Thousand == 1000

\* const budget = { LCP: 2500, INP: 200, CLS: 0.1, FCP: 1800, TTFB: 800 }
Budget ==
    [LCP |-> 2500 * Thousand, INP |-> 200 * Thousand, CLS |-> 100,
     FCP |-> 1800 * Thousand, TTFB |-> 800 * Thousand]

\* Object.entries(budget): the keys in the order they are written
BudgetNames == <<"LCP", "INP", "CLS", "FCP", "TTFB">>

\* a Metric of web-vitals, as far as the monitor reads it
Metric(name, value) == [value |-> value, id |-> "v4-" \o name, name |-> name]

\* the values a metric is reported with: half its threshold, the threshold
\* itself, and the threshold and a half
Samples(name) ==
    {Budget[name] \div 2, Budget[name], Budget[name] + Budget[name] \div 2}

Metrics ==
    UNION {{Metric(BudgetNames[i], value) : value \in Samples(BudgetNames[i])} :
              i \in 1..Len(BudgetNames)}

\* new Map()
EmptyMap == [key \in {} |-> Undefined]

\* map.set(key, item)
MapSet(map, key, item) ==
    [k \in DOMAIN map \cup {key} |-> IF k = key THEN item ELSE map[k]]

\* `${n}` of a number with at most three decimals
NumberToString(n) ==
    LET whole == n \div Thousand
        d1 == (n % Thousand) \div 100
        d2 == (n \div 10) % 10
        d3 == n % 10
    IN  IF n % Thousand = 0 THEN ToString(whole)
        ELSE ToString(whole) \o "." \o ToString(d1)
             \o (IF d2 = 0 /\ d3 = 0 THEN ""
                 ELSE ToString(d2) \o (IF d3 = 0 THEN "" ELSE ToString(d3)))

\* the latest call of a synchronous function: which one, with which
\* arguments, and what it returned
Call(fn, args, result) == [result |-> result, fn |-> fn, args |-> args]

NoCall == Call("none", <<>>, Undefined)

\* a checker whose thresholds are themselves over budget
Exceeds_AtThreshold(map, name) ==
    name \in DOMAIN map /\ map[name].value >= Budget[name]

\* if (metric && metric.value > threshold)
Exceeds(map, name) ==
    name \in DOMAIN map /\ map[name].value > Budget[name]

\* violations.push(`${metricName}: ${metric.value} > ${threshold}`)
Violation(map, name) ==
    name \o ": " \o NumberToString(map[name].value) \o " > "
         \o NumberToString(Budget[name])

\* the forEach of checkPerformanceBudget over the first n entries of the budget
RECURSIVE ViolationsUpTo(_, _)
ViolationsUpTo(map, n) ==
    IF n = 0 THEN <<>>
    ELSE LET before == ViolationsUpTo(map, n - 1)
         IN  IF Exceeds(map, BudgetNames[n])
             THEN Append(before, Violation(map, BudgetNames[n]))
             ELSE before

\* what checkPerformanceBudget returns for the stored metrics map
checkPerformanceBudget(map) ==
    LET violations == ViolationsUpTo(map, Len(BudgetNames))
    IN  [violations |-> violations, passed |-> Len(violations) = 0]

\* Math.round(metric.name === 'CLS' ? metric.value * 1000 : metric.value),
\* as a whole number
GtagValue(metric) ==
    IF metric.name = "CLS" THEN metric.value
    ELSE (metric.value + Thousand \div 2) \div Thousand

\* sendToAnalytics: the gtag event, if window.gtag exists, and the
\* fetch('/api/analytics/performance', {method: 'POST', body}) not yet settled
Transmission(metric) ==
    [body |-> metric, method |-> "POST", url |-> "/api/analytics/performance",
     gtag |-> IF browser.gtag THEN <<GtagValue(metric)>> ELSE <<>>,
     state |-> "pending"]

\* a handleMetric that sends first and stores only what was sent
handleMetric_StoreWhenSent(metric) ==
    /\ browser.NODE_ENV = "production" => Len(posts) < MaxPosts
    /\ metrics' = IF browser.NODE_ENV = "production"
                  THEN MapSet(metrics, metric.name, metric)
                  ELSE metrics
    /\ posts' = IF browser.NODE_ENV = "production"
                THEN Append(posts, Transmission(metric))
                ELSE posts
    /\ call' = Call("handleMetric", <<metric>>, Undefined)
    /\ UNCHANGED <<browser, perf, health, cache, image>>
    /\ UNCHANGED <<clientVars, serverVars>>

\* handleMetric: this.metrics.set(metric.name, metric), then
\* sendToAnalytics(metric) in production (in development a console.log)
handleMetric(metric) ==
    /\ browser.NODE_ENV = "production" => Len(posts) < MaxPosts
    /\ metrics' = MapSet(metrics, metric.name, metric)
    /\ posts' = IF browser.NODE_ENV = "production"
                THEN Append(posts, Transmission(metric))
                ELSE posts
    /\ call' = Call("handleMetric", <<metric>>, Undefined)
    /\ UNCHANGED <<browser, perf, health, cache, image>>
    /\ UNCHANGED <<clientVars, serverVars>>

\* the POST settles: fulfilled with whatever response, or rejected, and then
\* the .catch callback writes a console.warn
PostSettles(i, state) ==
    /\ i \in 1..Len(posts)
    /\ posts[i].state = "pending"
    /\ posts' = [posts EXCEPT ![i].state = state]
    /\ UNCHANGED <<browser, metrics, perf, health, cache, image, call>>
    /\ UNCHANGED <<clientVars, serverVars>>

\* monitor.checkPerformanceBudget() is called
CallCheckPerformanceBudget ==
    /\ call' = Call("checkPerformanceBudget", <<metrics>>,
                    checkPerformanceBudget(metrics))
    /\ UNCHANGED <<monitorVars, perf, health, cache, image>>
    /\ UNCHANGED <<clientVars, serverVars>>

\* the values of NODE_ENV a bundle is built or a test is run with
NodeEnvs ==
    {"development", "production", "test", "", Undefined, "Development",
     " development "}

\* a page just loaded: the monitor holds no metric, nothing was sent
Loaded(nodeEnv, gtag) ==
    /\ browser = [gtag |-> gtag, NODE_ENV |-> nodeEnv]
    /\ metrics = EmptyMap
    /\ posts = <<>>
    /\ call = NoCall

\* no PerformanceProvider and no ProductImage is mounted
Unmounted == [mounted |-> FALSE]
NoImage == [mounted |-> FALSE]

---------------------------------------------------------------------------
(* components/PerformanceProvider.tsx, mounted by app/layout.tsx *)

\* most renders of one provider instance
MaxRenders == 4

\* Is the tree rendered in React's Strict Mode?  next.config.ts does not set
\* reactStrictMode, so the App Router build renders the layout in Strict
\* Mode; the component tests render the provider without it.
StrictModes == BOOLEAN

\* how often React runs the effects of a component that mounts: under
\* Strict Mode a development build of React runs them, cleans up and runs
\* them once more
EffectRuns(strict) ==
    IF strict /\ browser.NODE_ENV # "production" THEN 2 ELSE 1

\* the effect of PerformanceProvider, run once: under NODE_ENV ===
\* 'development' it calls initPerformanceMonitoring inside try/catch, and
\* the catch block writes a console.warn.  The result is the number of
\* calls and of warnings added.
Effect(throws) ==
    IF browser.NODE_ENV = "development"
    THEN [inits |-> 1, warned |-> IF throws THEN 1 ELSE 0]
    ELSE [inits |-> 0, warned |-> 0]

\* the effect run the given number of times, the i-th call of
\* initPerformanceMonitoring throwing when throws[i]
RECURSIVE Effects(_, _)
Effects(runs, throws) ==
    IF runs = 0 THEN [inits |-> 0, warned |-> 0]
    ELSE LET before == Effects(runs - 1, throws)
             this == Effect(throws[runs])
         IN  [inits |-> before.inits + this.inits,
              warned |-> before.warned + this.warned]

\* a provider instance mounts: it renders its children, then React runs its
\* effect
MountProvider(strict, throws) ==
    /\ ~perf.mounted
    /\ LET done == Effects(EffectRuns(strict), throws)
       IN  perf' = [mounted |-> TRUE, strict |-> strict, inits |-> done.inits,
                    warned |-> done.warned, renders |-> 1, children |-> TRUE]
    /\ UNCHANGED <<monitorVars, health, cache, image, call>>
    /\ UNCHANGED <<clientVars, serverVars>>

\* the instance renders again: the effect has no dependency and is not run
RerenderProvider ==
    /\ perf.mounted
    /\ perf.renders < MaxRenders
    /\ perf' = [perf EXCEPT !.renders = @ + 1, !.children = TRUE]
    /\ UNCHANGED <<monitorVars, health, cache, image, call>>
    /\ UNCHANGED <<clientVars, serverVars>>

\* the instance unmounts: the effect has no cleanup
UnmountProvider ==
    /\ perf.mounted
    /\ perf' = Unmounted
    /\ UNCHANGED <<monitorVars, health, cache, image, call>>
    /\ UNCHANGED <<clientVars, serverVars>>

Unrendered == perf = Unmounted /\ image = NoImage

---------------------------------------------------------------------------
(* lib/seo-monitoring.ts: checkSitemapHealth, checkRobotsHealth and
   generateSEOHealthReport *)

\* A text is the sequence of the pieces the checks look for, and of pieces
\* they do not look for.
XML_DECLARATION == "<?xml version=\"1.0\" encoding=\"UTF-8\"?>"
URLSET_DECLARATION == "<urlset xmlns=\"http://www.sitemaps.org/schemas/sitemap/0.9\">"

\* text.includes(piece)
Includes(text, piece) == \E i \in 1..Len(text) : text[i] = piece

\* (text.match(/<url>/g) || []).length
UrlCount(text) == Cardinality({i \in 1..Len(text) : text[i] = "<url>"})

\* the url elements of a sitemap, with or without their loc elements
RECURSIVE UrlElements(_, _)
UrlElements(count, withLoc) ==
    IF count = 0 THEN <<>>
    ELSE UrlElements(count - 1, withLoc)
         \o (IF withLoc THEN <<"<url>", "<loc>", "</loc>", "</url>">>
             ELSE <<"<url>", "</url>">>)

\* the sitemaps the site is modelled to serve
SitemapTexts ==
    {(IF declared THEN <<XML_DECLARATION>> ELSE <<>>)
        \o (IF urlset THEN <<URLSET_DECLARATION>> ELSE <<"<urlset>">>)
        \o UrlElements(count, withLoc) \o <<"</urlset>">> :
        declared \in BOOLEAN, urlset \in BOOLEAN, count \in {0, 4, 5},
        withLoc \in BOOLEAN}

\* the robots.txt files the site is modelled to serve
RobotsTexts ==
    {(IF userAgent THEN <<"User-agent:", " *">> ELSE <<>>)
        \o (IF disallow THEN <<"Disallow:", " /api/">> ELSE <<"Allow:", " /">>)
        \o (IF sitemap THEN <<"Sitemap:", " /sitemap.xml">> ELSE <<>>) :
        userAgent \in BOOLEAN, disallow \in BOOLEAN, sitemap \in BOOLEAN}

\* a body response.text() reads, and one whose reading fails
TextBody(text) == [text |-> text, type |-> "text"]
Unreadable == [type |-> "unreadable"]

\* response.text()
ReadText(response) ==
    IF response.body.type = "unreadable"
    THEN Rejected(Exception("TypeError"))
    ELSE Resolved(response.body.text)

HealthStatuses == {200, 404, 500}

\* response.statusText
StatusText(status) ==
    CASE status = 200 -> "OK"
      [] status = 404 -> "Not Found"
      [] status = 500 -> "Internal Server Error"
      [] OTHER -> ""

SitemapFileResponses ==
    {Response(status, body) :
        status \in HealthStatuses,
        body \in {TextBody(text) : text \in SitemapTexts} \cup {Unreadable}}

RobotsFileResponses ==
    {Response(status, body) :
        status \in HealthStatuses,
        body \in {TextBody(text) : text \in RobotsTexts} \cup {Unreadable}}

\* a status that lets warnings hide errors
HealthStatus_WarningsFirst(errors, warnings) ==
    IF Len(warnings) > 0 THEN "warning"
    ELSE IF Len(errors) > 0 THEN "error" ELSE "healthy"

\* errors.length > 0 ? 'error' : warnings.length > 0 ? 'warning' : 'healthy'
HealthStatus(errors, warnings) ==
    IF Len(errors) > 0 THEN "error"
    ELSE IF Len(warnings) > 0 THEN "warning" ELSE "healthy"

\* a SitemapHealthCheck (lastChecked, the time of the check, is left out)
SitemapHealthCheck(status, urlCount, errors, warnings) ==
    [status |-> status, errors |-> errors, warnings |-> warnings,
     urlCount |-> urlCount]

\* a RobotsHealthCheck (lastChecked is left out)
RobotsHealthCheck(status, errors, warnings, hasUserAgent, hasSitemap, hasDisallow) ==
    [status |-> status, errors |-> errors, warnings |-> warnings,
     hasUserAgent |-> hasUserAgent, hasSitemap |-> hasSitemap,
     hasDisallow |-> hasDisallow]

\* error instanceof Error ? error.message : 'Unknown error'
FailureMessage(error) == error.message

\* checkSitemapHealth from the point where fetch settles up to the next
\* await: Pending when it goes on to await response.text()
SitemapHealthAfterFetch(settled) ==
    IF settled.kind = "rejected"
    THEN Resolved(SitemapHealthCheck(
             "error", 0,
             <<"Sitemap health check failed: " \o FailureMessage(settled.error)>>,
             <<>>))
    ELSE IF ~ok(settled.value)
         THEN Resolved(SitemapHealthCheck(
                  "error", 0,
                  <<"Sitemap HTTP error: " \o ToString(settled.value.status)
                       \o " " \o StatusText(settled.value.status)>>,
                  <<>>))
         ELSE Pending

\* the pushes of checkSitemapHealth, in their order
SitemapWarnings(text) ==
    IF UrlCount(text) < 5
    THEN <<"Sitemap has unusually few URLs: " \o ToString(UrlCount(text))>>
    ELSE <<>>

SitemapErrors(text) ==
    (IF ~Includes(text, XML_DECLARATION)
     THEN <<"Sitemap missing XML declaration">> ELSE <<>>)
    \o (IF ~Includes(text, URLSET_DECLARATION)
        THEN <<"Sitemap missing proper urlset declaration">> ELSE <<>>)
    \o (IF ~Includes(text, "<loc>")
        THEN <<"Sitemap missing location elements">> ELSE <<>>)

\* checkSitemapHealth from the point where response.text() settles
SitemapHealthAfterText(response) ==
    LET read == ReadText(response)
    IN  IF read.kind = "rejected"
        THEN Resolved(SitemapHealthCheck(
                 "error", 0,
                 <<"Sitemap health check failed: " \o FailureMessage(read.error)>>,
                 <<>>))
        ELSE Resolved(SitemapHealthCheck(
                 HealthStatus(SitemapErrors(read.value), SitemapWarnings(read.value)),
                 UrlCount(read.value),
                 SitemapErrors(read.value), SitemapWarnings(read.value)))

\* checkRobotsHealth from the point where fetch settles up to the next await
RobotsHealthAfterFetch(settled) ==
    IF settled.kind = "rejected"
    THEN Resolved(RobotsHealthCheck(
             "error",
             <<"Robots.txt health check failed: " \o FailureMessage(settled.error)>>,
             <<>>, FALSE, FALSE, FALSE))
    ELSE IF ~ok(settled.value)
         THEN Resolved(RobotsHealthCheck(
                  "error",
                  <<"Robots.txt HTTP error: " \o ToString(settled.value.status)
                       \o " " \o StatusText(settled.value.status)>>,
                  <<>>, FALSE, FALSE, FALSE))
         ELSE Pending

RobotsErrors(text) ==
    IF ~Includes(text, "User-agent:")
    THEN <<"Robots.txt missing User-agent directive">> ELSE <<>>

RobotsWarnings(text) ==
    (IF ~Includes(text, "Sitemap:")
     THEN <<"Robots.txt missing Sitemap directive">> ELSE <<>>)
    \o (IF ~Includes(text, "Disallow:")
        THEN <<"Robots.txt has no Disallow directives - consider adding some for security">>
        ELSE <<>>)

\* checkRobotsHealth from the point where response.text() settles
RobotsHealthAfterText(response) ==
    LET read == ReadText(response)
    IN  IF read.kind = "rejected"
        THEN Resolved(RobotsHealthCheck(
                 "error",
                 <<"Robots.txt health check failed: " \o FailureMessage(read.error)>>,
                 <<>>, FALSE, FALSE, FALSE))
        ELSE Resolved(RobotsHealthCheck(
                 HealthStatus(RobotsErrors(read.value), RobotsWarnings(read.value)),
                 RobotsErrors(read.value), RobotsWarnings(read.value),
                 Includes(read.value, "User-agent:"),
                 Includes(read.value, "Sitemap:"),
                 Includes(read.value, "Disallow:")))

\* generateSEOHealthReport once both checks have settled (lastChecked is
\* left out)
SEOHealthReport(sitemapHealth, robotsHealth) ==
    LET hasErrors == sitemapHealth.status = "error" \/ robotsHealth.status = "error"
        hasWarnings ==
            sitemapHealth.status = "warning" \/ robotsHealth.status = "warning"
    IN  [sitemap |-> sitemapHealth, robots |-> robotsHealth,
         overall |-> IF hasErrors THEN "error"
                     ELSE IF hasWarnings THEN "warning" ELSE "healthy"]

\* one health check being run: the URL it fetches, where it waits, what its
\* fetch settled with and what the check settled with
HealthCheck(url, pc, fetched, result) ==
    [url |-> url, pc |-> pc, fetched |-> fetched, result |-> result]

NotRun == HealthCheck("", "idle", Pending, Pending)

\* the health checks being run: by which entry point, the two checks, and
\* what generateSEOHealthReport settled with
NoHealthCheck ==
    [report |-> Pending, op |-> "none", sitemap |-> NotRun, robots |-> NotRun]

HealthQuiet ==
    /\ health.sitemap.pc \in {"idle", "done"}
    /\ health.robots.pc \in {"idle", "done"}

CallCheckSitemapHealth ==
    /\ HealthQuiet
    /\ health' = [NoHealthCheck EXCEPT
                     !.op = "checkSitemapHealth",
                     !.sitemap = HealthCheck(baseUrl \o "/sitemap.xml", "fetch",
                                             Pending, Pending)]
    /\ UNCHANGED <<monitorVars, perf, cache, image, call>>
    /\ UNCHANGED <<clientVars, serverVars>>

CallCheckRobotsHealth ==
    /\ HealthQuiet
    /\ health' = [NoHealthCheck EXCEPT
                     !.op = "checkRobotsHealth",
                     !.robots = HealthCheck(baseUrl \o "/robots.txt", "fetch",
                                            Pending, Pending)]
    /\ UNCHANGED <<monitorVars, perf, cache, image, call>>
    /\ UNCHANGED <<clientVars, serverVars>>

\* Promise.all([checkSitemapHealth(), checkRobotsHealth()]): both checks
\* run up to the await of their fetch
CallGenerateSEOHealthReport ==
    /\ HealthQuiet
    /\ health' = [NoHealthCheck EXCEPT
                     !.op = "generateSEOHealthReport",
                     !.sitemap = HealthCheck(baseUrl \o "/sitemap.xml", "fetch",
                                             Pending, Pending),
                     !.robots = HealthCheck(baseUrl \o "/robots.txt", "fetch",
                                            Pending, Pending)]
    /\ UNCHANGED <<monitorVars, perf, cache, image, call>>
    /\ UNCHANGED <<clientVars, serverVars>>

\* a check has settled: when it is the later of the two of
\* generateSEOHealthReport, the promise of Promise.all is fulfilled and the
\* report is made
Conclude(checks) ==
    IF /\ checks.op = "generateSEOHealthReport"
       /\ checks.sitemap.pc = "done"
       /\ checks.robots.pc = "done"
    THEN [checks EXCEPT !.report = Resolved(SEOHealthReport(
                                      checks.sitemap.result.value,
                                      checks.robots.result.value))]
    ELSE checks

\* a health check whose fetch has settled
FetchSettled(check, settled, outcome) ==
    IF outcome = Pending
    THEN [check EXCEPT !.pc = "text", !.fetched = settled]
    ELSE [check EXCEPT !.pc = "done", !.fetched = settled, !.result = outcome]

SitemapHealthFetchSettles(settled) ==
    /\ health.sitemap.pc = "fetch"
    /\ health' = Conclude([health EXCEPT !.sitemap =
                     FetchSettled(@, settled, SitemapHealthAfterFetch(settled))])
    /\ UNCHANGED <<monitorVars, perf, cache, image, call>>
    /\ UNCHANGED <<clientVars, serverVars>>

SitemapHealthTextSettles ==
    /\ health.sitemap.pc = "text"
    /\ health' = Conclude([health EXCEPT
                     !.sitemap.pc = "done",
                     !.sitemap.result =
                         SitemapHealthAfterText(health.sitemap.fetched.value)])
    /\ UNCHANGED <<monitorVars, perf, cache, image, call>>
    /\ UNCHANGED <<clientVars, serverVars>>

RobotsHealthFetchSettles(settled) ==
    /\ health.robots.pc = "fetch"
    /\ health' = Conclude([health EXCEPT !.robots =
                     FetchSettled(@, settled, RobotsHealthAfterFetch(settled))])
    /\ UNCHANGED <<monitorVars, perf, cache, image, call>>
    /\ UNCHANGED <<clientVars, serverVars>>

RobotsHealthTextSettles ==
    /\ health.robots.pc = "text"
    /\ health' = Conclude([health EXCEPT
                     !.robots.pc = "done",
                     !.robots.result =
                         RobotsHealthAfterText(health.robots.fetched.value)])
    /\ UNCHANGED <<monitorVars, perf, cache, image, call>>
    /\ UNCHANGED <<clientVars, serverVars>>

---------------------------------------------------------------------------
(* lib/sitemap-cache.ts *)

\* unstable_cache holds no entry for the products of the sitemap; an entry
\* is the listing it was filled with
EmptyCache == <<>>

\* what unstable_cache itself fails with, e.g. when the incremental cache of
\* the server is missing
CacheFailure(key) ==
    [Exception("Error") EXCEPT !.message = "unstable_cache failed: " \o key]

\* new Date() at the time of the call
Now == "<now>"

\* an entry of MetadataRoute.Sitemap; the priority is counted in thousandths
SitemapEntry(url, lastModified, changeFrequency, priority) ==
    [url |-> url, lastModified |-> lastModified,
     changeFrequency |-> changeFrequency, priority |-> priority]

\* what the function of getCachedStaticPages returns
StaticPages ==
    <<SitemapEntry(baseUrl, Now, "daily", 1000),
      SitemapEntry(baseUrl \o "/products", Now, "daily", 900),
      SitemapEntry(baseUrl \o "/categories", Now, "weekly", 800),
      SitemapEntry(baseUrl \o "/about", Now, "monthly", 600),
      SitemapEntry(baseUrl \o "/contact", Now, "monthly", 500)>>

---------------------------------------------------------------------------
(* app/sitemap.ts: sitemap *)

\* products.map((product) => ({...}))
ProductPages(products) ==
    [i \in 1..Len(products) |->
        SitemapEntry(baseUrl \o "/product/" \o products[i].sku,
                     products[i].lastModified, "weekly", 900)]

\* the sitemap of the catch block
FallbackSitemap == <<SitemapEntry(baseUrl, Now, "daily", 1000)>>

\* a sitemap with no catch block
sitemap_NoCatch(awaited) ==
    IF awaited.kind = "rejected" THEN awaited
    ELSE Resolved(StaticPages \o ProductPages(awaited.value))

\* what sitemap() returns once its awaits are over: awaited is the
\* rejection of the first await that failed, or else the products
sitemap(awaited) ==
    IF awaited.kind = "rejected" THEN Resolved(FallbackSitemap)
    ELSE Resolved(StaticPages \o ProductPages(awaited.value))

\* sitemap() is requested and runs up to await getCachedStaticPages()
RequestSitemap ==
    /\ inv.pc \in {"idle", "done"}
    /\ inv' = Invocation("sitemap", "", "static", Pending, Pending, Pending)
    /\ fetches' = <<>>
    /\ UNCHANGED <<env, clientVars, restVars>>

\* sitemap() has settled with the awaited outcome
SitemapSettle(awaited) ==
    [inv EXCEPT !.pc = "done", !.client = awaited, !.result = sitemap(awaited)]

\* getCachedStaticPages() settles: with the static pages, and sitemap()
\* goes on to await getCachedProducts(), or with a failure of the cache
StaticPagesSettle(failed) ==
    /\ inv.op = "sitemap"
    /\ inv.pc = "static"
    /\ inv' = IF failed
              THEN SitemapSettle(Rejected(CacheFailure("sitemap-static-pages")))
              ELSE [inv EXCEPT !.pc = "products"]
    /\ UNCHANGED <<env, fetches, clientVars, restVars>>

\* getCachedProducts() finds its entry in the cache
CachedProductsHit ==
    /\ inv.op = "sitemap"
    /\ inv.pc = "products"
    /\ cache # EmptyCache
    /\ inv' = SitemapSettle(Resolved(cache[1]))
    /\ UNCHANGED <<env, fetches, clientVars>>
    /\ UNCHANGED <<monitorVars, perf, health, cache, image, call>>

\* getCachedProducts() fails in the cache itself
CachedProductsFail ==
    /\ inv.op = "sitemap"
    /\ inv.pc = "products"
    /\ inv' = SitemapSettle(Rejected(CacheFailure("sitemap-products")))
    /\ UNCHANGED <<env, fetches, clientVars, restVars>>

\* getCachedProducts() finds no entry, or a stale one, and calls
\* getProductsForSitemap: with API_BASE_URL set that fetches the listing,
\* without it it returns the active mock products, which fill the cache
CachedProductsMiss ==
    /\ inv.op = "sitemap"
    /\ inv.pc = "products"
    /\ IF env.API_BASE_URL # Unset
       THEN /\ inv' = [inv EXCEPT !.pc = "fetch"]
            /\ fetches' = <<Fetch("GET", env.API_BASE_URL \o "/products/sitemap",
                                  SITEMAP_REVALIDATE_SECONDS)>>
            /\ cache' = cache
       ELSE /\ inv' = SitemapSettle(Resolved(ActiveMockProducts))
            /\ fetches' = fetches
            /\ cache' = <<ActiveMockProducts>>
    /\ UNCHANGED <<env, clientVars>>
    /\ UNCHANGED <<monitorVars, perf, health, image, call>>

\* the fetch of the getProductsForSitemap that sitemap() awaits settles
CachedProductsFetchSettles(settled) ==
    /\ inv.op = "sitemap"
    /\ inv.pc = "fetch"
    /\ LET outcome == SitemapAfterFetch(settled)
       IN  IF outcome = Pending
           THEN /\ inv' = [inv EXCEPT !.pc = "json", !.fetched = settled]
                /\ cache' = cache
           ELSE /\ inv' = [SitemapSettle(outcome) EXCEPT !.fetched = settled]
                /\ cache' = <<outcome.value>>
    /\ UNCHANGED <<env, fetches, clientVars>>
    /\ UNCHANGED <<monitorVars, perf, health, image, call>>

\* response.json() of that getProductsForSitemap settles
CachedProductsJsonSettles ==
    /\ inv.op = "sitemap"
    /\ inv.pc = "json"
    /\ LET outcome == SitemapAfterJson(inv.fetched.value)
       IN  /\ inv' = SitemapSettle(outcome)
           /\ cache' = <<outcome.value>>
    /\ UNCHANGED <<env, fetches, clientVars>>
    /\ UNCHANGED <<monitorVars, perf, health, image, call>>

ServerQuiet == health = NoHealthCheck /\ cache = EmptyCache

---------------------------------------------------------------------------
(* utils/format.ts: generateSlug and truncateText *)

\* A string is the sequence of its characters; a character outside ASCII is
\* named by its code point.
MaxSlugLen == 4

\* a lowercase letter, an uppercase letter, E with acute, a digit, a space,
\* a tab, a hyphen and a special character
SlugChars == {"a", "B", "U+00C9", "1", " ", "\t", "-", "!"}
SlugTexts == UNION {[1..n -> SlugChars] : n \in 0..MaxSlugLen}

\* what a synchronous call returned
Returned(value) == [value |-> value, kind |-> "returned"]

\* .toLowerCase()
LowerCaseOf(c) ==
    CASE c = "B" -> <<"b">>
      [] c = "U+00C9" -> <<"U+00E9">>
      [] OTHER -> <<c>>

RECURSIVE toLowerCase(_)
toLowerCase(text) ==
    IF text = <<>> THEN <<>> ELSE LowerCaseOf(Head(text)) \o toLowerCase(Tail(text))

\* .normalize('NFD'): e with acute decomposes into e and the combining
\* acute accent
NFD(c) == IF c = "U+00E9" THEN <<"e", "U+0301">> ELSE <<c>>

RECURSIVE normalizeNFD(_)
normalizeNFD(text) ==
    IF text = <<>> THEN <<>> ELSE NFD(Head(text)) \o normalizeNFD(Tail(text))

\* /[\u0300-\u036f]/
IsCombiningMark(c) == c \in {"U+0301"}

\* \s and -
SpaceChars == {" ", "\t"}
HyphenChars == {"-"}

\* /[a-z0-9\s-]/
IsLowerAscii(c) == c \in {"a", "b", "e"}
IsSpace(c) == c \in SpaceChars
IsSlugSafe(c) == IsLowerAscii(c) \/ IsDigit(c) \/ IsSpace(c) \/ c = "-"

\* .replace(/X+/g, by): every maximal run of characters of the set X
\* becomes by
RECURSIVE ReplaceRuns(_, _, _)
ReplaceRuns(X, by, text) ==
    IF text = <<>> THEN <<>>
    ELSE IF Head(text) \notin X THEN <<Head(text)>> \o ReplaceRuns(X, by, Tail(text))
    ELSE IF Len(text) > 1 /\ text[2] \in X THEN ReplaceRuns(X, by, Tail(text))
    ELSE by \o ReplaceRuns(X, by, Tail(text))

\* .replace(/^X+|X+$/g, ''), which for whitespace is .trim()
RECURSIVE StripStart(_, _)
StripStart(X, text) ==
    IF text # <<>> /\ Head(text) \in X THEN StripStart(X, Tail(text)) ELSE text

RECURSIVE StripEnd(_, _)
StripEnd(X, text) ==
    IF text # <<>> /\ text[Len(text)] \in X
    THEN StripEnd(X, SubSeq(text, 1, Len(text) - 1))
    ELSE text

StripEdges(X, text) == StripEnd(X, StripStart(X, text))

\* a generateSlug that keeps the hyphens of the edges
generateSlug_KeepEdges(text) ==
    LET lower == toLowerCase(text)
        decomposed == normalizeNFD(lower)
        unaccented == SelectSeq(decomposed, LAMBDA c : ~IsCombiningMark(c))
        safe == SelectSeq(unaccented, IsSlugSafe)
        hyphenated == ReplaceRuns(SpaceChars, <<"-">>, safe)
        collapsed == ReplaceRuns(HyphenChars, <<"-">>, hyphenated)
    IN  StripEdges(SpaceChars, collapsed)

generateSlug(text) ==
    LET lower == toLowerCase(text)
        decomposed == normalizeNFD(lower)
        unaccented == SelectSeq(decomposed, LAMBDA c : ~IsCombiningMark(c))
        safe == SelectSeq(unaccented, IsSlugSafe)
        hyphenated == ReplaceRuns(SpaceChars, <<"-">>, safe)
        collapsed == ReplaceRuns(HyphenChars, <<"-">>, hyphenated)
        stripped == StripEdges(HyphenChars, collapsed)
    IN  StripEdges(SpaceChars, stripped)

\* the call of generateSlug returns
ReturnGenerateSlug ==
    /\ call.fn = "generateSlug"
    /\ call.result.kind = "pending"
    /\ call' = [call EXCEPT !.result = Returned(generateSlug(call.args[1]))]
    /\ UNCHANGED <<clientVars, serverVars, monitorVars, perf, health, cache, image>>

\* the slug of a returned slug is asked for
CallGenerateSlugAgain ==
    /\ call.fn = "generateSlug"
    /\ call.result.kind = "returned"
    /\ call' = Call("generateSlug", <<call.result.value>>, Pending)
    /\ UNCHANGED <<clientVars, serverVars, monitorVars, perf, health, cache, image>>

\* the texts truncateText is given: words and spaces
MaxTruncLen == 16
TruncChars == {"a", " "}
TruncTexts == UNION {[1..n -> TruncChars] : n \in 0..MaxTruncLen}

\* the maxLength and the suffix it is given: a maxLength shorter than the
\* suffix, short ones, and one that leaves more than 10 characters
TruncOptions ==
    {<<1, <<".", ".", ".">>>>, <<4, <<".", ".", ".">>>>, <<8, <<>>>>,
     <<8, <<".">>>>, <<MaxTruncLen - 1, <<".">>>>}

\* text.slice(0, end), for 0 <= end
Slice(text, end) == SubSeq(text, 1, Min(end, Len(text)))

\* text.lastIndexOf(c): an index from 0, or -1
LastIndexOf(text, c) ==
    LET found == {i \in 1..Len(text) : text[i] = c}
    IN  IF found = {} THEN -1
        ELSE (CHOOSE i \in found : \A j \in found : j <= i) - 1

\* lostChars <= Math.max(3, availableLength * 0.3), counted in tenths
LosesLittle(lostChars, availableLength) ==
    lostChars * 10 <= Max(30, availableLength * 3)

\* a truncateText that never looks for a word boundary
truncateText_RawPrefix(text, maxLength, suffix) ==
    IF Len(text) <= maxLength THEN text
    ELSE IF suffix # <<>> /\ maxLength < Len(suffix)
    THEN Slice(text, maxLength) \o suffix
    ELSE IF suffix = <<>> THEN StripEdges(SpaceChars, Slice(text, maxLength))
    ELSE StripEdges(SpaceChars, Slice(text, maxLength - Len(suffix))) \o suffix

truncateText(text, maxLength, suffix) ==
    IF Len(text) <= maxLength THEN text
    ELSE IF suffix # <<>> /\ maxLength < Len(suffix)
    THEN Slice(text, maxLength) \o suffix
    ELSE IF suffix = <<>> THEN StripEdges(SpaceChars, Slice(text, maxLength))
    ELSE LET availableLength == maxLength - Len(suffix)
             prefix == Slice(text, availableLength)
             lastSpaceIndex == LastIndexOf(prefix, " ")
             truncated ==
                 IF /\ lastSpaceIndex > 0
                    /\ availableLength > 10
                    /\ LosesLittle(availableLength - lastSpaceIndex, availableLength)
                 THEN Slice(prefix, lastSpaceIndex)
                 ELSE prefix
         IN  StripEdges(SpaceChars, truncated) \o suffix

\* the call of truncateText returns
ReturnTruncateText ==
    /\ call.fn = "truncateText"
    /\ call.result.kind = "pending"
    /\ call' = [call EXCEPT !.result =
                   Returned(truncateText(call.args[1], call.args[2], call.args[3]))]
    /\ UNCHANGED <<clientVars, serverVars, monitorVars, perf, health, cache, image>>

\* the text truncateText returned is truncated again, one character shorter
CallTruncateTextAgain ==
    /\ call.fn = "truncateText"
    /\ call.result.kind = "returned"
    /\ call.args[2] > 0
    /\ call' = Call("truncateText",
                    <<call.result.value, call.args[2] - 1, call.args[3]>>, Pending)
    /\ UNCHANGED <<clientVars, serverVars, monitorVars, perf, health, cache, image>>

---------------------------------------------------------------------------
(* components/ProductImage.tsx: ProductImage *)

\* The src values a page passes: undefined, the empty string, whitespace
\* only, and URLs, one of them padded with a space.  A src is the sequence
\* of its characters, a run of characters that are no whitespace being
\* written as one element.
Src(text) == [text |-> text, defined |-> TRUE]
UndefinedSrc == [text |-> <<>>, defined |-> FALSE]
ImageSrcs ==
    {UndefinedSrc, Src(<<>>), Src(<<" ">>), Src(<<" ", "\t">>),
     Src(<<"https://example.com/sofa.jpg">>),
     Src(<<"https://example.com/mesa.jpg">>),
     Src(<<" ", "/images/placeholder.jpg">>)}
ImageAlts == {"Sofa", "Mesa"}

\* !src || src.trim() === ''
IsBlankSrc(src) ==
    \/ ~src.defined
    \/ src.text = <<>>
    \/ StripEdges(SpaceChars, src.text) = <<>>

\* the JSX the instance returns
ShowsSkeleton == image.mounted /\ image.isLoading
ShowsError == image.mounted /\ image.hasError
ShowsImage == image.mounted /\ ~image.hasError /\ ~IsBlankSrc(image.src)

\* an instance mounts: the two useState initialisers run
MountImage(src, alt, priority) ==
    /\ ~image.mounted
    /\ image' = [mounted |-> TRUE, priority |-> priority, src |-> src,
                 isLoading |-> TRUE, hasError |-> IsBlankSrc(src), alt |-> alt]
    /\ UNCHANGED <<monitorVars, perf, health, cache, call>>
    /\ UNCHANGED <<clientVars, serverVars>>

\* the parent renders the instance again with other props: the state stays
RerenderImage(src, alt, priority) ==
    /\ image.mounted
    /\ <<src, alt, priority>> # <<image.src, image.alt, image.priority>>
    /\ image' = [image EXCEPT !.src = src, !.alt = alt, !.priority = priority]
    /\ UNCHANGED <<monitorVars, perf, health, cache, call>>
    /\ UNCHANGED <<clientVars, serverVars>>

\* onLoad of the rendered Image
handleLoad ==
    /\ ShowsImage
    /\ image' = [image EXCEPT !.isLoading = FALSE]
    /\ UNCHANGED <<monitorVars, perf, health, cache, call>>
    /\ UNCHANGED <<clientVars, serverVars>>

\* onError of the rendered Image
handleError ==
    /\ ShowsImage
    /\ image' = [image EXCEPT !.isLoading = FALSE, !.hasError = TRUE]
    /\ UNCHANGED <<monitorVars, perf, health, cache, call>>
    /\ UNCHANGED <<clientVars, serverVars>>

\* the instance unmounts
UnmountImage ==
    /\ image.mounted
    /\ image' = NoImage
    /\ UNCHANGED <<monitorVars, perf, health, cache, call>>
    /\ UNCHANGED <<clientVars, serverVars>>

---------------------------------------------------------------------------
(* Specifications *)

\* the provider mounted with the product of the tests, the server with no
\* environment variable set
Init ==
    /\ Mounted(mockProduct) /\ Idle(DefaultEnv)
    /\ Loaded("test", FALSE) /\ Unrendered /\ ServerQuiet

\* a provider mounted with any product
InitMounted ==
    \E p \in Products :
        /\ Mounted(p) /\ Idle(DefaultEnv)
        /\ Loaded("test", FALSE) /\ Unrendered /\ ServerQuiet

\* a server process with any environment
InitServer ==
    \E e \in Envs :
        /\ Mounted(mockProduct) /\ Idle(e)
        /\ Loaded("test", FALSE) /\ Unrendered /\ ServerQuiet

FireTimer ==
    \/ \E i \in 1..Len(timers), random \in RandomTenths : ResolveSubmission(i, random)
    \/ \E i \in 1..Len(timers) : AutoRevert(i)

\* the Cart Submission Control: button clicks and the timers they schedule
NextCart ==
    \/ ClickAddToCart
    \/ FireTimer
    \/ Advance

SpecCart == Init /\ [][NextCart]_vars

\* the same, where time does not stop and the event loop runs every timer
\* that is due; nothing makes the user click
SpecCartLive == SpecCart /\ WF_vars(Advance) /\ WF_vars(FireTimer)

\* the same, with a further consumer calling handleAddToCart directly
NextCartProg ==
    \/ NextCart
    \/ CallHandleAddToCart

SpecCartProg == Init /\ [][NextCartProg]_vars

\* the Quantity Control: stepper clicks and direct inputs
NextQuantity ==
    \/ ClickIncrement
    \/ ClickDecrement
    \/ \E text \in Texts : InputChange(text)

SpecQuantity == Init /\ [][NextQuantity]_vars

\* the same, with a further consumer calling decrementQuantity directly
NextQuantityProg ==
    \/ NextQuantity
    \/ CallDecrementQuantity

SpecQuantityProg == Init /\ [][NextQuantityProg]_vars

\* the product page: getProductBySku called directly, by ProductPage and by
\* generateMetadata, against any behaviour of the network and the backend
NextProduct ==
    \/ \E sku \in SKUs : CallGetProductBySku(sku)
    \/ \E sku \in SKUs : RequestProductPage(sku)
    \/ \E sku \in SKUs : RequestMetadata(sku)
    \/ \E r \in ProductResponses : ProductFetchSettles(Resolved(r))
    \/ \E e \in FetchFailures : ProductFetchSettles(Rejected(e))
    \/ ProductJsonSettles

SpecProduct == InitServer /\ [][NextProduct]_vars

\* the sitemap listing against any behaviour of the network and the backend
NextSitemap ==
    \/ CallGetProductsForSitemap
    \/ \E r \in SitemapResponses : SitemapFetchSettles(Resolved(r))
    \/ \E e \in FetchFailures : SitemapFetchSettles(Rejected(e))
    \/ SitemapJsonSettles

SpecSitemap == InitServer /\ [][NextSitemap]_vars

\* the SEO health checks against any behaviour of the site they fetch from
NextHealth ==
    \/ CallCheckSitemapHealth
    \/ CallCheckRobotsHealth
    \/ CallGenerateSEOHealthReport
    \/ \E r \in SitemapFileResponses : SitemapHealthFetchSettles(Resolved(r))
    \/ \E e \in FetchFailures : SitemapHealthFetchSettles(Rejected(e))
    \/ SitemapHealthTextSettles
    \/ \E r \in RobotsFileResponses : RobotsHealthFetchSettles(Resolved(r))
    \/ \E e \in FetchFailures : RobotsHealthFetchSettles(Rejected(e))
    \/ RobotsHealthTextSettles

SpecHealth == InitServer /\ [][NextHealth]_vars

\* the sitemap route against any behaviour of the cache, the network and
\* the backend
NextSitemapRoute ==
    \/ RequestSitemap
    \/ \E failed \in BOOLEAN : StaticPagesSettle(failed)
    \/ CachedProductsHit
    \/ CachedProductsFail
    \/ CachedProductsMiss
    \/ \E r \in SitemapResponses : CachedProductsFetchSettles(Resolved(r))
    \/ \E e \in FetchFailures : CachedProductsFetchSettles(Rejected(e))
    \/ CachedProductsJsonSettles

SpecSitemapRoute == InitServer /\ [][NextSitemapRoute]_vars

\* ProductImage instances mounting, rendered again, loading or failing to
\* load their image, and unmounting
NextProductImage ==
    \/ \E src \in ImageSrcs, alt \in ImageAlts, priority \in BOOLEAN :
          MountImage(src, alt, priority)
    \/ \E src \in ImageSrcs, alt \in ImageAlts, priority \in BOOLEAN :
          RerenderImage(src, alt, priority)
    \/ handleLoad
    \/ handleError
    \/ UnmountImage

SpecProductImage == Init /\ [][NextProductImage]_vars

\* a call of generateSlug with any text
InitSlug ==
    \E text \in SlugTexts :
        /\ Mounted(mockProduct) /\ Idle(DefaultEnv)
        /\ browser = [gtag |-> FALSE, NODE_ENV |-> "test"]
        /\ metrics = EmptyMap
        /\ posts = <<>>
        /\ call = Call("generateSlug", <<text>>, Pending)
        /\ Unrendered /\ ServerQuiet

NextSlug ==
    \/ ReturnGenerateSlug
    \/ CallGenerateSlugAgain

SpecSlug == InitSlug /\ [][NextSlug]_vars

\* a call of truncateText with any text
InitTruncate ==
    \E text \in TruncTexts, option \in TruncOptions :
        /\ Mounted(mockProduct) /\ Idle(DefaultEnv)
        /\ browser = [gtag |-> FALSE, NODE_ENV |-> "test"]
        /\ metrics = EmptyMap
        /\ posts = <<>>
        /\ call = Call("truncateText", <<text, option[1], option[2]>>, Pending)
        /\ Unrendered /\ ServerQuiet

NextTruncate ==
    \/ ReturnTruncateText
    \/ CallTruncateTextAgain

SpecTruncate == InitTruncate /\ [][NextTruncate]_vars

\* the texts of a single keystroke into an emptied input
KeyTexts == {text \in Texts : Len(text) <= 1}

\* a mounted provider as a whole: the Quantity Control and the Cart
\* Submission Control side by side
NextProvider ==
    \/ ClickIncrement
    \/ ClickDecrement
    \/ \E text \in KeyTexts : InputChange(text)
    \/ ClickAddToCart
    \/ FireTimer
    \/ Advance

SpecProvider == InitMounted /\ [][NextProvider]_vars

\* the same for the provider of the tests and a user who clicks the button
\* at most MaxClicks times
MaxClicks == 2

NextIndependence ==
    \/ ClickIncrement
    \/ ClickDecrement
    \/ \E text \in KeyTexts : InputChange(text)
    \/ calls < MaxClicks /\ ClickAddToCart
    \/ FireTimer
    \/ Advance

SpecIndependence == Init /\ [][NextIndependence]_vars

\* a page loaded with any NODE_ENV, with or without window.gtag
InitLoaded ==
    \E nodeEnv \in NodeEnvs, gtag \in BOOLEAN :
        /\ Mounted(mockProduct) /\ Idle(DefaultEnv)
        /\ Loaded(nodeEnv, gtag) /\ Unrendered /\ ServerQuiet

\* the monitor collecting metrics, and its budget being checked
NextMonitor ==
    \/ \E metric \in Metrics : handleMetric(metric)
    \/ \E i \in 1..Len(posts), state \in {"fulfilled", "rejected"} : PostSettles(i, state)
    \/ CallCheckPerformanceBudget

SpecMonitor == InitLoaded /\ [][NextMonitor]_vars

\* PerformanceProvider instances mounting, rendering again and unmounting
NextPerformanceProvider ==
    \/ \E strict \in StrictModes, throws \in [1..2 -> BOOLEAN] :
          MountProvider(strict, throws)
    \/ RerenderProvider
    \/ UnmountProvider

SpecPerformanceProvider == InitLoaded /\ [][NextPerformanceProvider]_vars

---------------------------------------------------------------------------
(* Properties *)

\* a step in which handleAddToCart is invoked
SubmitStep == calls' = calls + 1

LifecycleEdges ==
    {<<"idle", "loading">>, <<"loading", "success">>, <<"loading", "error">>,
     <<"success", "idle">>, <<"error", "idle">>}

\* C1: under button clicks and timer firings cartStatus changes only along
\* idle->loading, loading->success, loading->error, success->idle and
\* error->idle.
C1_OnlyLifecycleEdges ==
    [][cartStatus' # cartStatus => <<cartStatus, cartStatus'>> \in LifecycleEdges]_vars

\* C2: driven through the button alone, at most one submission is in flight
\* (started, its delay not yet resolved) at any time.
C2_AtMostOneInFlight == Cardinality(PendingResolves) <= 1

\* C3: after any sequence of stepper clicks and direct inputs the stored
\* quantity lies in 1..10.
C3_QuantityInRange == quantity \in 1..10

\* C4: an invocation of handleAddToCart leaves cartStatus = loading at once,
\* before any timer callback runs.
C4_LoadingImmediately == [][SubmitStep => cartStatus' = "loading"]_vars

C4_Witness ==
    /\ sub.from = "idle"
    /\ sub.age = 0
    /\ cartStatus = "loading"
    /\ timers = <<Timer("resolve", RESOLVE_DELAY)>>

\* the timeline of the latest submission, as long as nothing is submitted
\* after it: loading for 1000 ms, then success for 2000 ms or error for
\* 3000 ms, then idle
OnTimeline ==
    \/ /\ cartStatus = "loading"
       /\ sub.outcome = "none"
       /\ sub.age <= RESOLVE_DELAY
    \/ /\ cartStatus = "success"
       /\ sub.outcome = "success"
       /\ sub.age >= RESOLVE_DELAY
       /\ sub.age <= RESOLVE_DELAY + SUCCESS_REVERT_DELAY
    \/ /\ cartStatus = "error"
       /\ sub.outcome = "error"
       /\ sub.age >= RESOLVE_DELAY
       /\ sub.age <= RESOLVE_DELAY + ERROR_REVERT_DELAY
    \/ /\ cartStatus = "idle"
       /\ sub.outcome = "success"
       /\ sub.age >= RESOLVE_DELAY + SUCCESS_REVERT_DELAY
    \/ /\ cartStatus = "idle"
       /\ sub.outcome = "error"
       /\ sub.age >= RESOLVE_DELAY + ERROR_REVERT_DELAY

\* C5: a submission started from idle, with nothing submitted after it,
\* turns into exactly one of success and error 1000 ms after the call and
\* returns to idle 2000 ms after a success, 3000 ms after an error.
C5_SubmissionTimeline == sub.from = "idle" => OnTimeline

\* (C5 does hold of the submissions started from idle with no timer of an
\* earlier submission pending.)
C5_TimelineFromQuietIdle == (sub.from = "idle" /\ sub.quiet) => OnTimeline

ButtonText(status) ==
    CASE status = "idle" -> "Adicionar ao Carrinho"
      [] status = "loading" -> "Adicionando..."
      [] status = "success" -> "Adicionado ao carrinho!"
      [] status = "error" -> "Erro. Tente novamente"

\* C6: the button is disabled exactly in loading and success, a click is
\* possible exactly in idle and error, the button shows the text of the
\* current status, and no click invokes handleAddToCart in loading or success.
C6_ButtonFollowsStatus ==
    /\ [](AddToCartDisabled <=> cartStatus \in {"loading", "success"})
    /\ [](calls < MaxCalls => ((ENABLED ClickAddToCart) <=> cartStatus \in {"idle", "error"}))
    /\ [](getButtonContent = ButtonText(cartStatus))
    /\ [][SubmitStep => cartStatus \in {"idle", "error"}]_vars

C6_Witness ==
    /\ cartStatus = "success"
    /\ AddToCartDisabled
    /\ getButtonContent = "Adicionado ao carrinho!"
    /\ sub.from = "error"

\* C7 as stated: a call of handleAddToCart while loading restarts the delay;
\* after it exactly one resolution is pending, due 1000 ms after that call.
C7_SecondCallRestarts ==
    [][(SubmitStep /\ cartStatus = "loading") =>
          /\ Cardinality(PendingResolves') = 1
          /\ \A i \in PendingResolves' : timers'[i].left = RESOLVE_DELAY]_vars

\* C7 as amended: a call of handleAddToCart while loading cancels nothing.
\* It schedules one more resolution, due 1000 ms after that call; every
\* timer pending before it stays pending, so at least two resolutions are
\* pending after it; a pending resolution goes away only at its own due
\* time, by setting the status to success or error.
C7_SecondCallAddsResolution ==
    /\ [][(SubmitStep /\ cartStatus = "loading") =>
            /\ timers' = Append(timers, Timer("resolve", RESOLVE_DELAY))
            /\ Cardinality(PendingResolves') >= 2]_vars
    /\ [][Cardinality(PendingResolves') < Cardinality(PendingResolves) =>
            /\ \E i \in PendingResolves : timers[i].left = 0
            /\ cartStatus' \in {"success", "error"}]_vars

C7_Witness ==
    /\ sub.from = "loading"
    /\ sub.age = 0
    /\ cartStatus = "loading"
    /\ Cardinality(PendingResolves) = 2
    /\ \E i, j \in PendingResolves : timers[i].left < timers[j].left

\* C8: whatever was typed before, a click on a stepper button never leaves a
\* stored quantity above 10.
C8_SteppersNeverAbove10 ==
    [][(ClickIncrement \/ ClickDecrement) => quantity' <= 10]_vars

\* C9: incrementQuantity stores min(10, quantity + 1) and decrementQuantity
\* stores max(1, quantity - 1), for every quantity; increments never take a
\* quantity of at most 10 above 10, and an increment at 10 leaves 10.
C9_StepperArithmetic ==
    [][/\ ClickIncrement =>
            /\ quantity' = (IF quantity + 1 <= 10 THEN quantity + 1 ELSE 10)
            /\ quantity <= 10 => quantity' <= 10
            /\ quantity = 10 => quantity' = 10
       /\ (ClickDecrement \/ CallDecrementQuantity) =>
            quantity' = (IF quantity - 1 >= 1 THEN quantity - 1 ELSE 1)]_vars

\* an increment has just run and left the quantity at the ceiling
C9_Witness == quantity = 10 /\ lastInput = "increment"

\* C10: a direct input whose text parses to no integer, or to one below 1,
\* changes neither the stored quantity nor cartStatus.
C10_InvalidInputRejected ==
    [][lastInput' \in {"NaN", "below 1"} =>
          quantity' = quantity /\ cartStatus' = cartStatus]_vars

C10_Witness == lastInput \in {"NaN", "below 1"} /\ quantity = 12

\* C11: a direct input whose text parses to an integer n >= 1 stores n as
\* the quantity, unclamped: 11 is stored as 11.
C11_ValidInputStoredVerbatim == [][typed' >= 1 => quantity' = typed']_vars

C11_Witness == lastInput = "1 or more" /\ typed = 11 /\ quantity = 11

\* C12: the stored quantity is an integer of at least 1 in every state, the
\* decrement button is disabled at 1, and no decrement, by the button or by
\* a direct call, leaves a quantity below 1.
C12_QuantityAtLeast1 ==
    /\ [](quantity \in Nat /\ quantity >= 1)
    /\ [](quantity = 1 => DecrementDisabled)
    /\ [][(ClickDecrement \/ CallDecrementQuantity) => quantity' >= 1]_vars

\* decrementQuantity has just run at the floor
C12_Witness == quantity = 1 /\ lastInput = "decrement" /\ DecrementDisabled

QuietIdle == cartStatus = "idle" /\ timers = <<>>

\* C29: under any interleaving of button clicks and timer callbacks, once
\* the clicks have stopped (there are at most MaxCalls of them) cartStatus
\* eventually is idle with no resolution and no auto-revert pending, and
\* stays so, given that time passes and every timer that is due fires.
C29_EventuallyQuietIdle == <>[]QuietIdle

\* every click made and answered, the button idle again with no timer left
C29_Witness ==
    /\ QuietIdle
    /\ calls = MaxCalls
    /\ sub.outcome \in {"success", "error"}

\* a step of the Quantity Control: a stepper click or a direct input
QuantityStep ==
    \/ ClickIncrement
    \/ ClickDecrement
    \/ \E text \in KeyTexts : InputChange(text)

\* a step of handleAddToCart or of one of its timer callbacks
CartStep == ClickAddToCart \/ FireTimer

\* C30: incrementQuantity, decrementQuantity and direct input never change
\* cartStatus or a pending timer; handleAddToCart and its timer callbacks
\* never change the quantity; and in every cartStatus, loading included,
\* the increment, the decrement (above 1) and every valid input are taken
\* with the effect they have when idle.
C30_QuantityAndCartIndependent ==
    /\ [][QuantityStep => UNCHANGED <<cartStatus, timers>>]_vars
    /\ [][quantity' # quantity => UNCHANGED <<cartStatus, timers>>]_vars
    /\ [][CartStep => quantity' = quantity]_vars
    /\ [](/\ ENABLED (ClickIncrement /\ quantity' = incrementQuantity(quantity))
          /\ quantity > 1 =>
                ENABLED (ClickDecrement /\ quantity' = decrementQuantity(quantity))
          /\ \A text \in KeyTexts :
                Accepts(ParsedText[text]) =>
                    ENABLED (InputChange(text) /\ quantity' = ParsedText[text].val))

\* a quantity typed while a submission is loading: the resolution is still
\* pending, and a further increment would be taken
C30_Witness ==
    /\ cartStatus = "loading"
    /\ PendingResolves # {}
    /\ lastInput = "1 or more"
    /\ typed = 2
    /\ quantity = 2
    /\ sub.age > 0
    /\ ENABLED (ClickIncrement /\ quantity' = 3 /\ cartStatus' = "loading")

---------------------------------------------------------------------------
(* Properties of the Product Data Client and the product page *)

\* getProductBySku has settled
ClientDone == inv.op \in ProductOps /\ inv.pc = "done"

\* the fetch brought a response with this status
Answered(status) ==
    inv.fetched.kind = "resolved" /\ inv.fetched.value.status = status

\* the fetch brought a non-2xx response
AnsweredNotOk == inv.fetched.kind = "resolved" /\ ~ok(inv.fetched.value)

\* the message of the body the fetch brought, if it has one
BodyMessage ==
    IF Has(inv.fetched.value.body, "message")
       /\ Field(inv.fetched.value.body, "message") # ""
    THEN Field(inv.fetched.value.body, "message")
    ELSE "Produto não encontrado"

\* C13: for every non-2xx response getProductBySku rejects with an ApiError
\* carrying the status of the response: a 404 gives status 404, error
\* 'Not Found' and the message of the body or 'Produto não encontrado';
\* any other status s gives status s and the message 'Erro na API: s'.
C13_ErrorCarriesResponseStatus ==
    (ClientDone /\ AnsweredNotOk) =>
        /\ inv.client.kind = "rejected"
        /\ inv.client.error.name = "ApiError"
        /\ inv.client.error.status = inv.fetched.value.status
        /\ Answered(404) =>
              inv.client.error = ApiError(BodyMessage, 404, "Not Found")
        /\ ~Answered(404) =>
              inv.client.error =
                  ApiError("Erro na API: " \o ToString(inv.fetched.value.status),
                           inv.fetched.value.status, Undefined)

\* the three kinds of failure of the Product Data Client
IsNotFound(error) ==
    error.name = "ApiError" /\ error.status = 404 /\ error.error = "Not Found"

IsHttpError(error) ==
    /\ error.name = "ApiError"
    /\ error.status \notin 200..299
    /\ error.message = "Erro na API: " \o ToString(error.status)

IsConnectionError(error) ==
    /\ error.name = "ApiError"
    /\ error.status = 500
    /\ error.message = "Erro de conexão com o servidor"

\* C14: when fetch rejects, or the body of a 2xx response cannot be decoded,
\* getProductBySku rejects with the ApiError of status 500 and the message
\* 'Erro de conexão com o servidor'; every rejection is a NotFound, an
\* HttpError or a ConnectionError, never a raw exception.
C14_FailuresNormalized ==
    ClientDone =>
        /\ (\/ inv.fetched.kind = "rejected"
            \/ /\ inv.fetched.kind = "resolved"
               /\ ok(inv.fetched.value)
               /\ inv.fetched.value.body.type = "invalid")
              => inv.client = Rejected(ConnectionError)
        /\ inv.client.kind = "rejected" =>
              \/ IsNotFound(inv.client.error)
              \/ IsHttpError(inv.client.error)
              \/ IsConnectionError(inv.client.error)

\* a rejected fetch and an undecodable 2xx body have both been normalized
C14_Witness ==
    /\ ClientDone
    /\ inv.fetched.kind = "rejected"
    /\ inv.fetched.error.name = "AbortError"
    /\ inv.client = Rejected(ConnectionError)

\* C15: a 404 response whose body is no JSON makes getProductBySku reject
\* with the connection error (status 500), not with a status-404 error.
C15_Undecodable404IsConnectionError ==
    (ClientDone /\ Answered(404) /\ inv.fetched.value.body.type = "invalid") =>
        /\ inv.client = Rejected(ConnectionError)
        /\ inv.client.error.status # 404

C15_Witness ==
    /\ ClientDone
    /\ Answered(404)
    /\ inv.fetched.value.body = Undecodable
    /\ inv.client.kind = "rejected"
    /\ inv.client.error.status = 500

\* C16: an invocation of getProductBySku issues exactly one fetch, a GET of
\* {API_BASE}/products/{sku}, on every path, and never a second one.
C16_ExactlyOneFetch ==
    inv.op \in ProductOps =>
        fetches = <<Fetch("GET", API_BASE_URL \o "/products/" \o inv.sku,
                          REVALIDATE_SECONDS)>>

\* a rejected fetch was not tried again
C16_Witness ==
    /\ ClientDone
    /\ inv.fetched.kind = "rejected"
    /\ Len(fetches) = 1
    /\ fetches[1].url = "https://api.loja.example/products/nao-existe"

PageDone == inv.op = "ProductPage" /\ inv.pc = "done"

\* getProductBySku failed with an ApiError of status 404 or 400
ClientSaidAbsent ==
    /\ inv.client.kind = "rejected"
    /\ inv.client.error.name = "ApiError"
    /\ inv.client.error.status \in {404, 400}

\* C17: ProductPage ends in the not-found outcome exactly when
\* getProductBySku failed with an ApiError of status 404 or 400, throws any
\* other error of getProductBySku again as it is, and so ends in the
\* not-found outcome whenever the backend answered 404.
C17_NotFoundOn404 ==
    PageDone =>
        /\ inv.result = NotFoundOutcome <=> ClientSaidAbsent
        /\ (inv.client.kind = "rejected" /\ ~ClientSaidAbsent) =>
              inv.result = inv.client
        /\ Answered(404) => inv.result = NotFoundOutcome

\* (the first two parts of C17 do hold)
C17_NotFoundExactlyOnAbsent ==
    PageDone =>
        /\ inv.result = NotFoundOutcome <=> ClientSaidAbsent
        /\ (inv.client.kind = "rejected" /\ ~ClientSaidAbsent) =>
              inv.result = inv.client

MetadataDone == inv.op = "generateMetadata" /\ inv.pc = "done"

\* C18: generateMetadata never fails, and whenever getProductBySku failed
\* it returns the 'Produto não encontrado' metadata with the canonical URL
\* {baseUrl}/product/{sku} of the requested sku.
C18_MetadataNeverFails ==
    MetadataDone =>
        /\ inv.result.kind = "resolved"
        /\ inv.client.kind = "rejected" =>
              /\ inv.result.value = FallbackMetadata(inv.sku)
              /\ inv.result.value.title = "Produto não encontrado | E-commerce Móveis"
              /\ inv.result.value.canonical = baseUrl \o "/product/" \o inv.sku

C18_Witness ==
    /\ MetadataDone
    /\ inv.client.kind = "rejected"
    /\ inv.client.error.status = 503
    /\ inv.result.kind = "resolved"
    /\ inv.result.value.canonical = "https://loja.example/product/nao-existe"

\* C19: a freshly mounted provider has quantity 1 and cartStatus idle, and
\* no quantity operation, submission or timer callback changes the product
\* the provider was given, or any field of it.
C19_ProductReadOnly ==
    /\ quantity = 1 /\ cartStatus = "idle"
    /\ [][product' = product]_vars

\* quantity operations, a submission and its timers have run
C19_Witness ==
    /\ product \in Products \ {mockProduct}
    /\ quantity = 3
    /\ cartStatus = "idle"
    /\ sub.outcome = "success"
    /\ timers = <<>>

SitemapDone == inv.op = "getProductsForSitemap" /\ inv.pc = "done"

\* the products of a listing that are not active
Inactive(listing) == {i \in 1..Len(listing) : ~listing[i].isActive}

\* C20: getProductsForSitemap never throws, returns only products with
\* isActive = true, on the mock path and on the API path, and returns the
\* empty list on any fetch or HTTP error.
C20_OnlyActiveProducts ==
    SitemapDone =>
        /\ inv.result.kind = "resolved"
        /\ Inactive(inv.result.value) = {}
        /\ (\/ inv.fetched.kind = "rejected"
            \/ inv.fetched.kind = "resolved" /\ ~ok(inv.fetched.value))
              => inv.result.value = <<>>

\* (C20 without the filter on the API path does hold)
C20_NeverThrows ==
    SitemapDone =>
        /\ inv.result.kind = "resolved"
        /\ inv.fetched = Pending => Inactive(inv.result.value) = {}
        /\ (\/ inv.fetched.kind = "rejected"
            \/ inv.fetched.kind = "resolved" /\ ~ok(inv.fetched.value))
              => inv.result.value = <<>>

---------------------------------------------------------------------------
(* Properties of the PerformanceMonitor *)

BudgetChecked == call.fn = "checkPerformanceBudget"

\* the thresholds of the budget, in thousandths
Thresholds ==
    [LCP |-> 2500000, INP |-> 200000, CLS |-> 100, FCP |-> 1800000,
     TTFB |-> 800000]

\* the places of the violation list that speak of the metric called name
EntriesFor(map, list, name) ==
    {i \in 1..Len(list) :
        list[i] = name \o ": " \o NumberToString(map[name].value) \o " > "
                       \o NumberToString(Thresholds[name])}

\* C21: checkPerformanceBudget returns passed = true exactly when the
\* violation list is empty; the list holds one entry for a budgeted metric
\* (LCP 2500, INP 200, CLS 0.1, FCP 1800, TTFB 800) exactly when the metric
\* is stored with a value strictly above its threshold, and no other entry;
\* a metric not collected gives no entry.
C21_BudgetViolations ==
    BudgetChecked =>
        LET map == call.args[1]
            list == call.result.violations
            over == {name \in DOMAIN Thresholds :
                        name \in DOMAIN map /\ map[name].value > Thresholds[name]}
        IN  /\ call.result.passed <=> list = <<>>
            /\ \A name \in over : Cardinality(EntriesFor(map, list, name)) = 1
            /\ Len(list) = Cardinality(over)
            /\ DOMAIN map = {} => list = <<>>

\* a check with one metric over its threshold, one exactly at it and the
\* others not collected
C21_Witness ==
    /\ BudgetChecked
    /\ DOMAIN call.args[1] = {"CLS", "LCP"}
    /\ call.args[1]["CLS"].value = 100
    /\ call.result.violations = <<"LCP: 3750 > 2500">>
    /\ ~call.result.passed

\* a step in which handleMetric ran
HandledStep ==
    /\ call'.fn = "handleMetric"
    /\ \/ call.fn # "handleMetric"
       \/ call'.args # call.args
       \/ Len(posts') > Len(posts)

\* C22: handleMetric always stores the metric under its name, replacing an
\* earlier sample of that name and leaving the other names alone; it sends
\* the metric to POST /api/analytics/performance exactly when NODE_ENV is
\* 'production'; a POST that settles, fulfilled or rejected, changes no
\* stored metric, and handleMetric keeps working after it.
C22_StoredAlwaysSentInProduction ==
    /\ [][HandledStep =>
            LET metric == call'.args[1]
            IN  /\ DOMAIN metrics' = DOMAIN metrics \cup {metric.name}
                /\ metrics'[metric.name] = metric
                /\ \A name \in DOMAIN metrics \ {metric.name} :
                       metrics'[name] = metrics[name]
                /\ posts' # posts <=> browser.NODE_ENV = "production"
                /\ posts' # posts =>
                       /\ SubSeq(posts', 1, Len(posts)) = posts
                       /\ Len(posts') = Len(posts) + 1
                       /\ posts'[Len(posts')].method = "POST"
                       /\ posts'[Len(posts')].url = "/api/analytics/performance"
                       /\ posts'[Len(posts')].body = metric]_vars
    /\ [][(posts' # posts /\ Len(posts') = Len(posts)) =>
            metrics' = metrics /\ call' = call]_vars
    /\ [](Len(posts) < MaxPosts => \A metric \in Metrics : ENABLED handleMetric(metric))

\* the POST of a first sample was rejected; a later sample of the same name
\* has replaced it in the store and is on its way
C22_Witness ==
    /\ browser.NODE_ENV = "production"
    /\ Len(posts) = 2
    /\ posts[1].state = "rejected"
    /\ posts[2].state = "pending"
    /\ posts[1].body.name = posts[2].body.name
    /\ posts[1].body.value # posts[2].body.value
    /\ metrics[posts[2].body.name] = posts[2].body
    /\ call = Call("handleMetric", <<posts[2].body>>, Undefined)

---------------------------------------------------------------------------
(* Properties of the PerformanceProvider *)

\* C23: a mounted provider instance has called initPerformanceMonitoring
\* exactly once when NODE_ENV is exactly 'development' and never otherwise,
\* however often it has rendered, and its children are rendered whether or
\* not the initialization threw.
C23_InitExactlyOnceInDevelopment ==
    perf.mounted =>
        /\ perf.inits = (IF browser.NODE_ENV = "development" THEN 1 ELSE 0)
        /\ perf.children

\* (what does hold: the initialization runs only under 'development', once
\* or twice per instance, never on a later render, and the children are
\* rendered in every case)
C23_InitOnlyInDevelopment ==
    /\ [](perf.mounted =>
            /\ browser.NODE_ENV = "development" => perf.inits \in {1, 2}
            /\ browser.NODE_ENV # "development" => perf.inits = 0
            /\ ~perf.strict => perf.inits <= 1
            /\ perf.warned <= perf.inits
            /\ perf.children)
    /\ [][(perf.mounted /\ perf'.mounted) => perf'.inits = perf.inits]_vars

---------------------------------------------------------------------------
(* Properties of the SEO health checks *)

\* the status a check must report for its two lists
StatusFollowsLists(check) ==
    /\ check.status = "error" <=> check.errors # <<>>
    /\ check.status = "warning" <=> (check.errors = <<>> /\ check.warnings # <<>>)
    /\ check.status = "healthy" <=> (check.errors = <<>> /\ check.warnings = <<>>)

\* C24: checkSitemapHealth and checkRobotsHealth never throw; each reports
\* 'error' exactly when its error list is not empty, 'warning' exactly when
\* it has no error but a warning, and 'healthy' otherwise; the overall
\* status of generateSEOHealthReport is 'error' if either check is 'error',
\* else 'warning' if either is 'warning', else 'healthy'.
C24_HealthStatusFollowsLists ==
    /\ health.sitemap.result.kind # "rejected"
    /\ health.robots.result.kind # "rejected"
    /\ health.sitemap.pc = "done" =>
          /\ health.sitemap.result.kind = "resolved"
          /\ StatusFollowsLists(health.sitemap.result.value)
    /\ health.robots.pc = "done" =>
          /\ health.robots.result.kind = "resolved"
          /\ StatusFollowsLists(health.robots.result.value)
    /\ health.report.kind # "rejected"
    /\ health.report.kind = "resolved" =>
          LET report == health.report.value
              either(status) ==
                  report.sitemap.status = status \/ report.robots.status = status
          IN  /\ report.sitemap = health.sitemap.result.value
              /\ report.robots = health.robots.result.value
              /\ report.overall =
                    (IF either("error") THEN "error"
                     ELSE IF either("warning") THEN "warning" ELSE "healthy")

\* a report of a healthy sitemap and a robots.txt with a warning only
C24_Witness ==
    /\ health.report.kind = "resolved"
    /\ health.report.value.overall = "warning"
    /\ health.report.value.sitemap.status = "healthy"
    /\ health.report.value.sitemap.urlCount = 5
    /\ health.report.value.robots.status = "warning"
    /\ health.report.value.robots.errors = <<>>
    /\ Len(health.report.value.robots.warnings) = 1

---------------------------------------------------------------------------
(* Properties of the sitemap route *)

SitemapRouteDone == inv.op = "sitemap" /\ inv.pc = "done"

\* C25: sitemap() never throws.  When the static pages and the products
\* were obtained it returns the five static entries followed, in the order
\* of the listing, by one entry {baseUrl}/product/{sku} per product, weekly,
\* priority 0.9, with the lastModified of the product; when either failed
\* it returns the one fallback entry for the base URL.
C25_SitemapEntries ==
    /\ inv.op = "sitemap" => inv.result.kind # "rejected"
    /\ SitemapRouteDone =>
          /\ inv.result.kind = "resolved"
          /\ inv.client.kind \in {"resolved", "rejected"}
          /\ inv.client.kind = "rejected" =>
                /\ Len(inv.result.value) = 1
                /\ inv.result.value[1].url = baseUrl
          /\ inv.client.kind = "resolved" =>
                LET products == inv.client.value
                    entries == inv.result.value
                IN  /\ Len(entries) = 5 + Len(products)
                    /\ SubSeq(entries, 1, 5) = StaticPages
                    /\ entries[1].url = baseUrl
                    /\ \A i \in 1..Len(products) :
                          /\ entries[5 + i].url =
                                baseUrl \o "/product/" \o products[i].sku
                          /\ entries[5 + i].changeFrequency = "weekly"
                          /\ entries[5 + i].priority = 900
                          /\ entries[5 + i].lastModified = products[i].lastModified

\* a sitemap of a fetched listing of two products
C25_Witness ==
    /\ SitemapRouteDone
    /\ inv.fetched.kind = "resolved"
    /\ inv.client.kind = "resolved"
    /\ Len(inv.result.value) = 7
    /\ inv.result.value[6].url = "https://loja.example/product/active-product"
    /\ inv.result.value[7].url = "https://loja.example/product/inactive-product"

---------------------------------------------------------------------------
(* Properties of ProductImage *)

\* C28: whenever ProductImage shows its error state, because the image
\* failed to load or because src was empty, whitespace-only or undefined,
\* the loading skeleton is not shown (isLoading is false) and no image
\* element is rendered; once entered, the error state is never left.
C28_ErrorStateHidesSkeleton ==
    /\ [](ShowsError => ~image.isLoading /\ ~ShowsSkeleton /\ ~ShowsImage)
    /\ [][ShowsError /\ image'.mounted => image'.hasError]_vars

\* what holds of the error state: no image element beside it, and it is
\* left only by unmounting; the skeleton is hidden when it was entered by a
\* failed load
C28_ErrorStateAbsorbing ==
    /\ [](ShowsError => ~ShowsImage)
    /\ [][ShowsError /\ image'.mounted => image'.hasError]_vars
    /\ [][ShowsImage /\ image'.mounted /\ image'.hasError => ~image'.isLoading]_vars

---------------------------------------------------------------------------
(* Properties of generateSlug and truncateText *)

SlugReturned == call.fn = "generateSlug" /\ call.result.kind = "returned"

\* /^[a-z0-9]+(-[a-z0-9]+)*$/
MatchesSlugPattern(slug) ==
    /\ slug # <<>>
    /\ \A i \in 1..Len(slug) :
          IsLowerAscii(slug[i]) \/ IsDigit(slug[i]) \/ slug[i] = "-"
    /\ slug[1] # "-"
    /\ slug[Len(slug)] # "-"
    /\ \A i \in 1..Len(slug) - 1 : ~(slug[i] = "-" /\ slug[i + 1] = "-")

\* C26: the slug generateSlug returns is empty or matches
\* ^[a-z0-9]+(-[a-z0-9]+)*$, and generateSlug applied to it returns it
\* unchanged.
C26_SlugShapeAndIdempotence ==
    SlugReturned =>
        LET slug == call.result.value
        IN  /\ slug = <<>> \/ MatchesSlugPattern(slug)
            /\ generateSlug(slug) = slug

\* an accented capital, a special character, mixed whitespace and hyphens
\* at an edge all met in one text
C26_Witness ==
    /\ SlugReturned
    /\ call.args[1] = <<"U+00C9", "!", "\t", "-">>
    /\ call.result.value = <<"e">>

TruncateReturned == call.fn = "truncateText" /\ call.result.kind = "returned"

\* text.length > maxLength, the suffix is non-empty and
\* maxLength >= suffix.length
Truncating ==
    /\ TruncateReturned
    /\ Len(call.args[1]) > call.args[2]
    /\ call.args[3] # <<>>
    /\ call.args[2] >= Len(call.args[3])

EndsWith(text, suffix) ==
    /\ Len(text) >= Len(suffix)
    /\ SubSeq(text, Len(text) - Len(suffix) + 1, Len(text)) = suffix

\* the positions of whitespace in a text, counted from 0
SpacesOf(text) == {i \in 0..Len(text) - 1 : IsSpace(text[i + 1])}
LastOf(indexes) == CHOOSE i \in indexes : \A j \in indexes : j <= i

\* C27 as stated: when text.length > maxLength, the suffix is non-empty and
\* maxLength >= suffix.length, the result is the first availableLength =
\* maxLength - suffix.length characters cut at their last whitespace,
\* whenever that discards at most max(3, 0.3 * availableLength) characters,
\* and the raw prefix otherwise, followed by the suffix; it ends with the
\* suffix and is at most maxLength long.
C27_BreaksWheneverCheap ==
    Truncating =>
        LET text == call.args[1]
            suffix == call.args[3]
            result == call.result.value
            availableLength == call.args[2] - Len(suffix)
            prefix == SubSeq(text, 1, availableLength)
            spaces == SpacesOf(prefix)
        IN  /\ IF /\ spaces # {}
                  /\ (availableLength - LastOf(spaces)) * 10
                        <= Max(30, availableLength * 3)
               THEN result = SubSeq(prefix, 1, LastOf(spaces)) \o suffix
               ELSE result = prefix \o suffix
            /\ EndsWith(result, suffix)
            /\ Len(result) <= call.args[2]

\* C27, amended: under the same conditions the prefix is cut at its last
\* space only when availableLength > 10, that space is not the first
\* character and the cut discards at most max(3, 0.3 * availableLength)
\* characters; the cut prefix, or else the whole prefix, is trimmed of
\* whitespace at both ends and followed by the suffix.  The result ends
\* with the suffix and is at most maxLength long.
C27_BreaksOnlyInLongPrefix ==
    Truncating =>
        LET text == call.args[1]
            suffix == call.args[3]
            result == call.result.value
            availableLength == call.args[2] - Len(suffix)
            prefix == SubSeq(text, 1, availableLength)
            spaces == SpacesOf(prefix)
        IN  /\ IF /\ availableLength > 10
                  /\ spaces # {}
                  /\ LastOf(spaces) > 0
                  /\ (availableLength - LastOf(spaces)) * 10
                        <= Max(30, availableLength * 3)
               THEN result =
                      StripEdges(SpaceChars, SubSeq(prefix, 1, LastOf(spaces))) \o suffix
               ELSE result = StripEdges(SpaceChars, prefix) \o suffix
            /\ EndsWith(result, suffix)
            /\ Len(result) <= call.args[2]

\* a cut at a space that discards 4 characters, more than 3 and at most
\* 0.3 * availableLength
C27_Witness ==
    /\ Truncating
    /\ LET suffix == call.args[3]
           availableLength == call.args[2] - Len(suffix)
           spaces == SpacesOf(SubSeq(call.args[1], 1, availableLength))
       IN  /\ availableLength > 10
           /\ spaces # {}
           /\ LastOf(spaces) = availableLength - 4
           /\ call.args[1][1] = "a"
           /\ call.args[1][availableLength - 4] = "a"
           /\ Len(call.result.value) = availableLength - 4 + Len(suffix)

===========================================================================
